---- MODULE Spec2Model ----
(***************************************************************************)
(* Neko Signal: the lifecycle registry (state_manager.py) and the          *)
(* per-pair pipeline (main_live.py).                                       *)
(*                                                                         *)
(* Prices are ticks (small naturals): the registry only compares prices    *)
(* with >= and <=, so an integer grid keeps every ordering case.           *)
(* An Optional value is a sequence of length 0 (None) or 1.                *)
(***************************************************************************)
EXTENDS Integers, Sequences, FiniteSets, TLC

\* ------------------------------------------------------------------ bounds
\* Registry-level calls draw prices from the ticks 0..MaxTick, and tp and sl
\* from the two levels 1 and MaxTick - 1, so that a price can lie below, on,
\* strictly between and above the two levels, in either order of tp and sl.
MaxTick == 4

Ticks == 0..MaxTick

Levels == {1, MaxTick - 1}

\* ----------------------------------------------------------- configuration
\* config.TRADING_PAIRS, cut to its first two symbols (the list order is the
\* insertion order of the registry's dicts).
TRADING_PAIRS == <<"BTC/USDT:USDT", "ETH/USDT:USDT">>

Symbols == {TRADING_PAIRS[i] : i \in DOMAIN TRADING_PAIRS}

SCORE_LONG_THRESHOLD == 4

SCORE_SHORT_THRESHOLD == -4

\* MIN_RR_RATIO = 2.0, in thousandths (rr is rounded to three decimals).
MIN_RR_RATIO == 2000

\* ------------------------------------------------------------------- state
VARIABLES
    states,      \* StateManager._states     : symbol -> "IDLE" | "LONG" | "SHORT"
    positions,   \* StateManager._positions  : symbol -> Optional VirtualPosition
    lastCall,    \* the most recent registry call of a direct caller: op, symbol, args, prices, ret
    before,      \* the registry as it was when that call was made
    events,      \* the log records that call emitted
    task,        \* the lock attempts of one concurrent round: caller -> [pc, symbol, args, ret]
    roundStart,  \* _states as it was when that round's attempts were created
    scanner,     \* run_scanner: "sleep" between cycles, "gather" while a cycle's pipelines run
    pc,          \* symbol -> where its _process_pair coroutine stands: "fetch" | "notify" | "export" | "done"
    frame,       \* symbol -> the locals of its suspended coroutine
    steps,       \* symbol -> the steps its pipeline run of this cycle has executed, in order
    openSignals, \* symbol -> decision records dispatched less positions resolved
    scored,      \* the most recent compute_score call: its window, its book, the five votes, the result
    gated,       \* the most recent gate_anti_wash_trading call on a window: the window, the result
    risked,      \* the most recent calculate_risk_params call: its window, its direction, the result
    ingested     \* the most recent data_ingestion fetch call: the exchange's answers so far, the result

callVars == <<lastCall, before, events, task, roundStart>>

pipeVars == <<scanner, pc, frame, steps, openSignals>>

\* The pure stages, each applied to arguments of its own.
stageVars == <<scored, gated, risked, ingested>>

vars == <<states, positions, lastCall, before, events, task, roundStart,
          scanner, pc, frame, steps, openSignals, scored, gated, risked,
          ingested>>

None == <<>>

Some(x) == <<x>>

PairState == {"IDLE", "LONG", "SHORT"}

\* ---------------------------------------------------------------- registry
\* The registry as a value: both dicts of a StateManager.
Registry(st, pos) == [states |-> st, positions |-> pos]

VirtualPosition(symbol, direction, entry, tp, sl, rr, score) ==
    [symbol |-> symbol, direction |-> direction, entry |-> entry,
     tp |-> tp, sl |-> sl, rr |-> rr, score |-> score]

\* StateManager.__init__
StateManagerInit ==
    Registry([p \in Symbols |-> "IDLE"], [p \in Symbols |-> None])

\* self._states.get(symbol, PairState.IDLE)
get_state(reg, symbol) ==
    IF symbol \in DOMAIN reg.states THEN reg.states[symbol] ELSE "IDLE"

\* Mutant of is_idle: the state is not compared with IDLE.
is_idle_any(reg, symbol) == symbol \in DOMAIN reg.states

\* self._states.get(symbol) == PairState.IDLE   (an unknown symbol gives None)
is_idle(reg, symbol) ==
    symbol \in DOMAIN reg.states /\ reg.states[symbol] = "IDLE"

\* dict item assignment: d[k] = v, adding k when it is new
DictSet(d, k, v) == [x \in DOMAIN d \cup {k} |-> IF x = k THEN v ELSE d[x]]

\* Mutant of lock_pair: the is_idle guard is missing.
lock_pair_overwrite(reg, symbol, direction, entry, tp, sl, rr, score) ==
    [ret |-> "True",
     reg |-> Registry(
         DictSet(reg.states, symbol, IF direction = "LONG" THEN "LONG" ELSE "SHORT"),
         DictSet(reg.positions, symbol,
                 Some(VirtualPosition(symbol, direction, entry, tp, sl, rr, score)))),
     raised |-> "",
     log |-> <<[event |-> "LOCKED", symbol |-> symbol,
                was |-> "IDLE", reason |-> direction]>>]

\* lock_pair: result [ret, reg, log, raised].  The warning of the failing
\* branch reads self._states[symbol], a KeyError for an untracked symbol.
lock_pair(reg, symbol, direction, entry, tp, sl, rr, score) ==
    IF ~is_idle(reg, symbol)
    THEN IF symbol \in DOMAIN reg.states
         THEN [ret |-> "False", reg |-> reg, raised |-> "",
               log |-> <<[event |-> "IGNORED", symbol |-> symbol,
                          was |-> reg.states[symbol], reason |-> "duplicate"]>>]
         ELSE [ret |-> "None", reg |-> reg, raised |-> "KeyError", log |-> <<>>]
    ELSE LET new_state == IF direction = "LONG" THEN "LONG" ELSE "SHORT"
         IN  [ret |-> "True",
              reg |-> Registry(
                  DictSet(reg.states, symbol, new_state),
                  DictSet(reg.positions, symbol,
                          Some(VirtualPosition(symbol, direction, entry, tp, sl, rr, score)))),
              raised |-> "",
              log |-> <<[event |-> "LOCKED", symbol |-> symbol,
                         was |-> "IDLE", reason |-> direction]>>]

\* Mutant of unlock_pair: the position record is left in place.
unlock_pair_keep_position(reg, symbol, reason) ==
    [reg |-> Registry(DictSet(reg.states, symbol, "IDLE"), reg.positions),
     log |-> <<[event |-> "UNLOCKED", symbol |-> symbol,
                was |-> get_state(reg, symbol), reason |-> reason]>>]

\* unlock_pair: result [reg, log]
unlock_pair(reg, symbol, reason) ==
    LET prev == get_state(reg, symbol)
    IN  [reg |-> Registry(DictSet(reg.states, symbol, "IDLE"),
                          DictSet(reg.positions, symbol, None)),
         log |-> <<[event |-> "UNLOCKED", symbol |-> symbol,
                    was |-> prev, reason |-> reason]>>]

\* if position.direction == "LONG": if price >= position.tp
long_tp_hit(p, price) == price >= p.tp

\* Mutant of long_sl_hit: the boundary price is left out.
long_sl_hit_strict(p, price) == price < p.sl

\* elif price <= position.sl            (LONG)
long_sl_hit(p, price) == price <= p.sl

\* elif position.direction == "SHORT": if price <= position.tp
short_tp_hit(p, price) == price <= p.tp

\* Mutant of short_sl_hit: the LONG comparison copied to the SHORT branch.
short_sl_hit_as_long(p, price) == price <= p.sl

\* elif price >= position.sl            (SHORT)
short_sl_hit(p, price) == price >= p.sl

\* Mutant of price_get: a missing price reads as 0 (.get(symbol, 0.0)).
price_get_default(current_prices, symbol) ==
    IF symbol \in DOMAIN current_prices THEN Some(current_prices[symbol]) ELSE Some(0)

\* current_prices.get(symbol): an Optional price
price_get(current_prices, symbol) ==
    IF symbol \in DOMAIN current_prices THEN Some(current_prices[symbol]) ELSE None

\* acc is [reg, log]; unlock_pair(symbol, reason) applied to it
hit(acc, symbol, reason) ==
    LET u == unlock_pair(acc.reg, symbol, reason)
    IN  [reg |-> u.reg, log |-> acc.log \o u.log]

\* Mutant of resolve_item: stop-loss is tested before take-profit.
resolve_item_sl_first(acc, symbol, position, current_prices) ==
    IF position = None THEN acc
    ELSE IF price_get(current_prices, symbol) = None THEN acc
    ELSE LET p == position[1]
             price == price_get(current_prices, symbol)[1]
         IN  IF p.direction = "LONG"
             THEN IF long_sl_hit(p, price) THEN hit(acc, symbol, "SL_HIT")
                  ELSE IF long_tp_hit(p, price) THEN hit(acc, symbol, "TP_HIT")
                  ELSE acc
             ELSE IF p.direction = "SHORT"
             THEN IF short_sl_hit(p, price) THEN hit(acc, symbol, "SL_HIT")
                  ELSE IF short_tp_hit(p, price) THEN hit(acc, symbol, "TP_HIT")
                  ELSE acc
             ELSE acc

\* Mutant of resolve_item: an item without a position is not skipped but
\* closed again whenever a price is supplied for it.
resolve_item_no_skip(acc, symbol, position, current_prices) ==
    IF price_get(current_prices, symbol) = None THEN acc
    ELSE IF position = None THEN hit(acc, symbol, "SL_HIT")
    ELSE LET p == position[1]
             price == price_get(current_prices, symbol)[1]
         IN  IF p.direction = "LONG"
             THEN IF long_tp_hit(p, price) THEN hit(acc, symbol, "TP_HIT")
                  ELSE IF long_sl_hit(p, price) THEN hit(acc, symbol, "SL_HIT")
                  ELSE acc
             ELSE IF p.direction = "SHORT"
             THEN IF short_tp_hit(p, price) THEN hit(acc, symbol, "TP_HIT")
                  ELSE IF short_sl_hit(p, price) THEN hit(acc, symbol, "SL_HIT")
                  ELSE acc
             ELSE acc

\* The body of update_virtual_positions' loop for one (symbol, position)
\* item of the snapshot list; acc is [reg, log] so far.
resolve_item(acc, symbol, position, current_prices) ==
    IF position = None THEN acc
    ELSE IF price_get(current_prices, symbol) = None THEN acc
    ELSE LET p == position[1]
             price == price_get(current_prices, symbol)[1]
         IN  IF p.direction = "LONG"
             THEN IF long_tp_hit(p, price) THEN hit(acc, symbol, "TP_HIT")
                  ELSE IF long_sl_hit(p, price) THEN hit(acc, symbol, "SL_HIT")
                  ELSE acc
             ELSE IF p.direction = "SHORT"
             THEN IF short_tp_hit(p, price) THEN hit(acc, symbol, "TP_HIT")
                  ELSE IF short_sl_hit(p, price) THEN hit(acc, symbol, "SL_HIT")
                  ELSE acc
             ELSE acc

\* for symbol, position in list(self._positions.items()): ...
\* items is the snapshot taken before the loop, in dict order.
RECURSIVE resolve_loop(_, _, _, _)
resolve_loop(acc, items, i, current_prices) ==
    IF i > Len(items) THEN acc
    ELSE resolve_loop(
             resolve_item(acc, items[i][1], items[i][2], current_prices),
             items, i + 1, current_prices)

\* A symbol a caller may name that the registry was not constructed with.
OtherPairs == <<"DOGE/USDT:USDT">>

AnySymbols == Symbols \cup {OtherPairs[i] : i \in DOMAIN OtherPairs}

\* list(self._positions.items()), in insertion order: the pairs the registry
\* was constructed with, then any key a later call has added.
position_items(reg) ==
    LET keys == TRADING_PAIRS
                \o SelectSeq(OtherPairs, LAMBDA p : p \in DOMAIN reg.positions)
    IN  [i \in DOMAIN keys |-> <<keys[i], reg.positions[keys[i]]>>]

\* update_virtual_positions: result [reg, log]
update_virtual_positions(reg, current_prices) ==
    resolve_loop([reg |-> reg, log |-> <<>>], position_items(reg), 1, current_prices)

\* ------------------------------------------------- direct registry callers
\* Every direction string a caller may pass: lock_pair takes any str.
Directions == {"LONG", "SHORT", "FLAT"}

\* entry, rr and score are stored and never read by the registry.
CallEntries == {MaxTick \div 2}

CallRRs == {MIN_RR_RATIO}

CallScores == {SCORE_LONG_THRESHOLD}

LockArgs ==
    [direction : Directions, entry : CallEntries, tp : Levels, sl : Levels,
     rr : CallRRs, score : CallScores]

\* current_prices dicts: any subset of the symbols, each with a price
PriceMaps == UNION {[S -> Ticks] : S \in SUBSET Symbols}

NoPrices == <<>>

reg_now == Registry(states, positions)

Call(op, symbol, args, prices, ret) ==
    [op |-> op, symbol |-> symbol, args |-> args, prices |-> prices, ret |-> ret]

Callers == {"c1", "c2"}

NoTask == [pc |-> "none", symbol |-> "", args |-> None, ret |-> "None"]

InitRegistry ==
    /\ states = StateManagerInit.states
    /\ positions = StateManagerInit.positions

\* The locals of a _process_pair coroutine that outlive an await, and the
\* arguments of the call it awaits: send_signal(...) or export_live_metrics(...).
Frame(current_price, score, direction, risk_params, signal, telemetry) ==
    [current_price |-> current_price, score |-> score, direction |-> direction,
     risk_params |-> risk_params, signal |-> signal, telemetry |-> telemetry]

NoFrame == Frame(None, None, None, None, None, None)

\* run_scanner before its first cycle: no pipeline exists yet.
InitScanner ==
    /\ scanner = "sleep"
    /\ pc = [s \in Symbols |-> "done"]
    /\ frame = [s \in Symbols |-> NoFrame]
    /\ steps = [s \in Symbols |-> <<>>]
    /\ openSignals = [s \in Symbols |-> 0]

\* No gate call on a window has been made yet.
NoGate == [df |-> None, ret |-> None]

\* No calculate_risk_params call has been made yet.
NoRisk == [df |-> None, direction |-> None, ret |-> None]

\* No fetch call has been made yet.
NoFetch == [fn |-> "", raw |-> None, answers |-> <<>>, raised |-> "", ret |-> None]

\* No compute_score call has been made yet.
NoScore == [df |-> None, orderbook |-> None, votes |-> <<>>, ret |-> None]

\* A fresh registry, no direct caller, and the scanner before its first cycle.
InitProgram ==
    /\ InitRegistry
    /\ lastCall = Call("__init__", "", None, NoPrices, "None")
    /\ before = StateManagerInit
    /\ events = <<>>
    /\ task = [c \in Callers |-> NoTask]
    /\ roundStart = states
    /\ InitScanner

InitReg ==
    /\ InitProgram
    /\ scored = NoScore
    /\ gated = NoGate
    /\ risked = NoRisk
    /\ ingested = NoFetch

\* sm.lock_pair(symbol, **a)
LockPairCall(symbol, a) ==
    LET r == lock_pair(reg_now, symbol, a.direction, a.entry, a.tp, a.sl, a.rr, a.score)
    IN  /\ states' = r.reg.states
        /\ positions' = r.reg.positions
        /\ lastCall' = Call("lock_pair", symbol, Some(a), NoPrices,
                            IF r.raised = "" THEN r.ret ELSE r.raised)
        /\ before' = reg_now
        /\ events' = r.log
        /\ UNCHANGED <<task, roundStart>>
        /\ UNCHANGED <<pipeVars, stageVars>>

\* sm.update_virtual_positions(current_prices)
UpdateCall(current_prices) ==
    LET r == update_virtual_positions(reg_now, current_prices)
    IN  /\ states' = r.reg.states
        /\ positions' = r.reg.positions
        /\ lastCall' = Call("update_virtual_positions", "", None, current_prices, "None")
        /\ before' = reg_now
        /\ events' = r.log
        /\ UNCHANGED <<task, roundStart>>
        /\ UNCHANGED <<pipeVars, stageVars>>

\* sm.unlock_pair(symbol)            (reason defaults to "manual")
UnlockCall(symbol) ==
    LET r == unlock_pair(reg_now, symbol, "manual")
    IN  /\ states' = r.reg.states
        /\ positions' = r.reg.positions
        /\ lastCall' = Call("unlock_pair", symbol, None, NoPrices, "None")
        /\ before' = reg_now
        /\ events' = r.log
        /\ UNCHANGED <<task, roundStart>>
        /\ UNCHANGED <<pipeVars, stageVars>>

NextReg ==
    \/ \E symbol \in Symbols, a \in LockArgs : LockPairCall(symbol, a)
    \/ \E current_prices \in PriceMaps : UpdateCall(current_prices)
    \/ \E symbol \in Symbols : UnlockCall(symbol)

\* The registry under arbitrary sequences of calls to its public mutators.
SpecReg == InitReg /\ [][NextReg]_vars

\* ---- callers that may name any symbol
\* Lock arguments with two distinct levels, and price mappings of at most
\* one symbol (as the pipeline passes them) with a price beyond both levels.
AnyLockArgs == {a \in LockArgs : a.tp # a.sl}

AnyPriceMaps == UNION {[S -> {0, MaxTick}] : S \in {{}} \cup {{s} : s \in AnySymbols}}

\* The registry under calls that name tracked and untracked symbols alike.
SpecAny ==
    InitReg /\ [][\/ \E symbol \in AnySymbols, a \in AnyLockArgs : LockPairCall(symbol, a)
                  \/ \E current_prices \in AnyPriceMaps : UpdateCall(current_prices)
                  \/ \E symbol \in AnySymbols : UnlockCall(symbol)]_vars

\* ------------------------------------------------ concurrent lock attempts
\* Two coroutines of one event loop each make one lock attempt.  lock_pair
\* holds no await, so the loop runs each attempt to completion, in either
\* order; between rounds the open positions are resolved by direct calls.
RaceArgs ==
    {a \in LockArgs : \/ a.direction = "LONG" /\ a.sl < a.tp
                      \/ a.direction = "SHORT" /\ a.tp < a.sl}

NoRound == \A c \in Callers : task[c].pc = "none"

\* asyncio.gather(attempt(c1), attempt(c2)): both attempts are created
StartRound(req) ==
    /\ NoRound
    /\ task' = [c \in Callers |->
                   [pc |-> "pending", symbol |-> req[c].symbol,
                    args |-> Some(req[c].args), ret |-> "None"]]
    /\ roundStart' = states
    /\ UNCHANGED <<states, positions, lastCall, before, events>>
    /\ UNCHANGED <<pipeVars, stageVars>>

\* The event loop runs one pending attempt: a whole lock_pair call.
RunTask(c) ==
    /\ task[c].pc = "pending"
    /\ LET a == task[c].args[1]
           r == lock_pair(reg_now, task[c].symbol, a.direction, a.entry,
                          a.tp, a.sl, a.rr, a.score)
       IN  /\ states' = r.reg.states
           /\ positions' = r.reg.positions
           /\ task' = [task EXCEPT ![c].pc = "done", ![c].ret = r.ret]
    /\ UNCHANGED <<lastCall, before, events, roundStart>>
    /\ UNCHANGED <<pipeVars, stageVars>>

\* gather returns once every attempt is done
EndRound ==
    /\ \A c \in Callers : task[c].pc = "done"
    /\ task' = [c \in Callers |-> NoTask]
    /\ UNCHANGED <<states, positions, lastCall, before, events, roundStart>>
    /\ UNCHANGED <<pipeVars, stageVars>>

\* sm.update_virtual_positions(current_prices), made between two rounds
RaceResolve(current_prices) ==
    /\ NoRound
    /\ LET r == update_virtual_positions(reg_now, current_prices)
       IN  /\ states' = r.reg.states
           /\ positions' = r.reg.positions
    /\ UNCHANGED <<lastCall, before, events, task, roundStart>>
    /\ UNCHANGED <<pipeVars, stageVars>>

NextRace ==
    \/ \E req \in [Callers -> [symbol : Symbols, args : RaceArgs]] : StartRound(req)
    \/ \E c \in Callers : RunTask(c)
    \/ EndRound
    \/ \E current_prices \in PriceMaps : RaceResolve(current_prices)

\* Rounds of two concurrent lock attempts on the shared registry.
SpecRace == InitReg /\ [][NextRace]_vars

\* ------------------------------------------------------------ the pipeline
\* main_live._process_pair, one coroutine per symbol and cycle.  A fetched
\* window is known by its last close; what the pure stages compute from its
\* candles is drawn where the pipeline calls them: the verdict of the
\* wash-trading filters, the score of the scoring engine, and the two levels
\* the risk calculator resolves around the close (lo: the volume node or
\* swing low at or below it, less the ATR buffer on the stop side; hi: the
\* node or swing high at or above it).
Closes == Ticks

\* The two thresholds and the scores just inside them.
Scores ==
    {SCORE_SHORT_THRESHOLD, SCORE_SHORT_THRESHOLD + 1,
     SCORE_LONG_THRESHOLD - 1, SCORE_LONG_THRESHOLD}

\* What fetch_extended_ohlcv hands back: None after its retries, or a window.
FetchResults == {None} \cup {Some([close |-> c]) : c \in Closes}

\* def gate_anti_wash_trading(df): one positional parameter
GATE_PARAMS == 1

\* gate_anti_wash_trading(df, symbol): the call of step 3 passes two
GATE_ARGS == 2

\* The call of step 3 against a gate of `params` parameters: Python raises
\* TypeError when the argument count does not fit, else the verdict returns.
gate_anti_wash_trading(params, verdict) ==
    IF GATE_ARGS # params THEN "TypeError"
    ELSE IF verdict THEN "True" ELSE "False"

\* Mutant of gate_rejects: the verdict of the gate is not acted on.
gate_rejects_never(gate) == FALSE

\* if not gate_anti_wash_trading(df, symbol): return
gate_rejects(gate) == gate # "True"

\* Mutant of position_open: step 5 lets every symbol through.
position_open_never(reg, symbol) == FALSE

\* Step 5: if not state_manager.is_idle(symbol)
position_open(reg, symbol) == ~is_idle(reg, symbol)

\* Mutant of threshold_direction: the sign of the score picks the direction.
threshold_direction_sign(score) ==
    IF score >= 0 THEN Some("LONG") ELSE Some("SHORT")

\* Step 7: direction from the score, None when no threshold is met
threshold_direction(score) ==
    IF score >= SCORE_LONG_THRESHOLD THEN Some("LONG")
    ELSE IF score <= SCORE_SHORT_THRESHOLD THEN Some("SHORT")
    ELSE None

abs(x) == IF x < 0 THEN -x ELSE x

\* round(reward / risk, 3), in thousandths
round3(reward, risk) == (2000 * reward + risk) \div (2 * risk)

RiskParams(entry, sl, tp, rr) == [Entry |-> entry, SL |-> sl, TP |-> tp, RR |-> rr]

\* calculate_risk_params(df, direction) from the resolved levels on:
\* None, or Some(RiskParams)
calculate_risk_params(df, lo, hi, direction) ==
    IF direction \notin {"LONG", "SHORT"} THEN None
    ELSE LET entry == df.close
             sl == IF direction = "LONG" THEN lo ELSE hi
             tp == IF direction = "LONG" THEN hi ELSE lo
             risk == abs(entry - sl)
             reward == abs(tp - entry)
         IN  IF direction = "LONG" /\ (sl >= entry \/ tp <= entry) THEN None
             ELSE IF direction = "SHORT" /\ (sl <= entry \/ tp >= entry) THEN None
             ELSE IF risk <= 0 THEN None
             ELSE IF round3(reward, risk) < MIN_RR_RATIO THEN None
             ELSE Some(RiskParams(entry, sl, tp, round3(reward, risk)))

\* Mutant of resolve_step: step 4 is left out.
resolve_step_skipped(reg, symbol, current_price) ==
    [reg |-> reg, log |-> <<>>, steps |-> <<>>]

\* Step 4: state_manager.update_virtual_positions({symbol: current_price})
resolve_step(reg, symbol, current_price) ==
    LET r == update_virtual_positions(reg, [x \in {symbol} |-> current_price])
    IN  [reg |-> r.reg, log |-> r.log,
         steps |-> <<"resolve">> \o [i \in DOMAIN r.log |-> "closed"]]

\* The record with take-profit and stop-loss in each other's place.
Signal_levels_swapped(symbol, direction, risk_params, score) ==
    [symbol |-> symbol, direction |-> direction, entry |-> risk_params.Entry,
     tp |-> risk_params.SL, sl |-> risk_params.TP, rr |-> risk_params.RR,
     score |-> score]

\* The keyword arguments of send_signal: the decision record
Signal(symbol, direction, risk_params, score) ==
    [symbol |-> symbol, direction |-> direction, entry |-> risk_params.Entry,
     tp |-> risk_params.TP, sl |-> risk_params.SL, rr |-> risk_params.RR,
     score |-> score]

\* trade_state.upper(), the tag export_live_metrics writes
upper(trade_state) ==
    CASE trade_state = "idle" -> "IDLE"
      [] trade_state = "long" -> "LONG"
      [] trade_state = "short" -> "SHORT"
      [] OTHER -> trade_state

\* The arguments of export_live_metrics, df by its last close
Telemetry(symbol, close, score, trade_state) ==
    [symbol |-> symbol, close |-> close, score |-> score, trade_state |-> trade_state]

\* Where a stretch of _process_pair ends: the registry it leaves, the await it
\* stops at ("done": it returned), its frame, the steps it ran and the
\* registry's log records.
Ran(reg, at, fr, ran, log) ==
    [reg |-> reg, pc |-> at, frame |-> fr, steps |-> ran, log |-> log]

\* Steps 8 to 10, entered with a direction: risk validation, lock, dispatch.
signal_steps(reg, symbol, df, lo, hi, score, direction, ran, log) ==
    LET risk_params == calculate_risk_params(df, lo, hi, direction)
    IN  IF risk_params = None
        THEN Ran(reg, "done", NoFrame, ran \o <<"risk_reject">>, log)
        ELSE LET rp == risk_params[1]
                 l == lock_pair(reg, symbol, direction, rp.Entry, rp.TP, rp.SL,
                                rp.RR, score)
             IN  IF l.raised # ""
                 THEN Ran(l.reg, "done", NoFrame,
                          ran \o <<"risk_ok", "lock_raise", "exception">>, log \o l.log)
                 ELSE IF l.ret # "True"
                 THEN Ran(l.reg, "done", NoFrame,
                          ran \o <<"risk_ok", "lock_fail">>, log \o l.log)
                 ELSE Ran(l.reg, "notify",
                          Frame(Some(df.close), Some(score), Some(direction),
                                risk_params,
                                Some(Signal(symbol, direction, rp, score)), None),
                          ran \o <<"risk_ok", "lock_ok", "dispatch">>, log \o l.log)

\* Step 5 with the literal tag of step 7: an open position exported as IDLE.
open_steps_tag_idle(reg, symbol, df, ran, log) ==
    Ran(reg, "export",
        Frame(Some(df.close), None, None, None, None,
              Some(Telemetry(symbol, df.close, 0, "IDLE"))),
        ran \o <<"not_idle", "export">>, log)

\* Step 5, position still open: telemetry with score 0 and the state's name
open_steps(reg, symbol, df, ran, log) ==
    Ran(reg, "export",
        Frame(Some(df.close), None, None, None, None,
              Some(Telemetry(symbol, df.close, 0, get_state(reg, symbol)))),
        ran \o <<"not_idle", "export">>, log)

\* Step 7, no threshold met: telemetry with the score and "IDLE"
no_signal_steps(reg, symbol, df, score, ran, log) ==
    Ran(reg, "export",
        Frame(Some(df.close), Some(score), None, None, None,
              Some(Telemetry(symbol, df.close, score, "IDLE"))),
        ran \o <<"no_signal", "export">>, log)

\* except Exception (line 252): the fault is logged and _process_pair returns.
caught(reg, ran, log) == Ran(reg, "done", NoFrame, ran \o <<"exception">>, log)

\* The positions of `symbol` the log reports closed
Closed(log, symbol) ==
    Cardinality({i \in DOMAIN log :
                    log[i].event = "UNLOCKED" /\ log[i].symbol = symbol})

\* run_scanner: asyncio.gather creates one _process_pair per pair; each runs
\* to its fetch.  (The cycle counter is only logged and is left out.)
StartCycle ==
    /\ scanner = "sleep"
    /\ scanner' = "gather"
    /\ pc' = [s \in Symbols |-> "fetch"]
    /\ frame' = [s \in Symbols |-> NoFrame]
    /\ steps' = [s \in Symbols |-> <<>>]
    /\ UNCHANGED <<states, positions, openSignals>>
    /\ UNCHANGED <<callVars, stageVars>>

\* Mutant of Resume: a fault in one pipeline ends every pipeline of the cycle.
Resume_fault_ends_cycle(symbol, r) ==
    /\ states' = r.reg.states
    /\ positions' = r.reg.positions
    /\ pc' = IF r.steps # <<>> /\ r.steps[Len(r.steps)] = "exception"
             THEN [s \in Symbols |-> "done"]
             ELSE [pc EXCEPT ![symbol] = r.pc]
    /\ frame' = [frame EXCEPT ![symbol] = r.frame]
    /\ steps' = [steps EXCEPT ![symbol] = r.steps]
    /\ openSignals' =
           [openSignals EXCEPT ![symbol] =
               @ - Closed(r.log, symbol) + (IF r.pc = "notify" THEN 1 ELSE 0)]

\* A stretch of the coroutine of `symbol` has run to its end r.
Resume(symbol, r) ==
    /\ states' = r.reg.states
    /\ positions' = r.reg.positions
    /\ pc' = [pc EXCEPT ![symbol] = r.pc]
    /\ frame' = [frame EXCEPT ![symbol] = r.frame]
    /\ steps' = [steps EXCEPT ![symbol] = r.steps]
    /\ openSignals' =
           [openSignals EXCEPT ![symbol] =
               @ - Closed(r.log, symbol) + (IF r.pc = "notify" THEN 1 ELSE 0)]

\* Steps 4 to 10 with a cool-down: a run whose resolve closed a position
\* returns and leaves the scoring to the next cycle.
AfterGate_cooldown(symbol, df, ran, fault) ==
    LET r == resolve_step(reg_now, symbol, df.close)
        ran4 == ran \o r.steps
    IN  IF r.log # <<>>
        THEN Resume(symbol, Ran(r.reg, "done", NoFrame, ran4, r.log))
        ELSE IF position_open(r.reg, symbol)
        THEN Resume(symbol, open_steps(r.reg, symbol, df, ran4, r.log))
        ELSE IF fault = "score"
        THEN Resume(symbol, caught(r.reg, ran4 \o <<"idle", "score_raise">>, r.log))
        ELSE \E score \in Scores :
                 LET direction == threshold_direction(score)
                     ran6 == ran4 \o <<"idle", "score">>
                 IN  IF direction = None
                     THEN Resume(symbol,
                                 no_signal_steps(r.reg, symbol, df, score, ran6, r.log))
                     ELSE IF fault = "risk"
                     THEN Resume(symbol,
                                 caught(r.reg, ran6 \o <<"threshold", "risk_raise">>,
                                        r.log))
                     ELSE \E lo \in {x \in Closes : x <= df.close},
                             hi \in {x \in Closes : x >= df.close} :
                              Resume(symbol,
                                     signal_steps(r.reg, symbol, df, lo, hi, score,
                                                  direction[1],
                                                  ran6 \o <<"threshold">>, r.log))

\* Steps 4 to 10, entered once the gate has passed.  `fault` names the call
\* that raises in this run: compute_score ("score"), calculate_risk_params
\* ("risk"), or none.
AfterGate(symbol, df, ran, fault) ==
    LET r == resolve_step(reg_now, symbol, df.close)
        ran4 == ran \o r.steps
    IN  IF position_open(r.reg, symbol)
        THEN Resume(symbol, open_steps(r.reg, symbol, df, ran4, r.log))
        ELSE IF fault = "score"
        THEN Resume(symbol, caught(r.reg, ran4 \o <<"idle", "score_raise">>, r.log))
        ELSE \E score \in Scores :
                 LET direction == threshold_direction(score)
                     ran6 == ran4 \o <<"idle", "score">>
                 IN  IF direction = None
                     THEN Resume(symbol,
                                 no_signal_steps(r.reg, symbol, df, score, ran6, r.log))
                     ELSE IF fault = "risk"
                     THEN Resume(symbol,
                                 caught(r.reg, ran6 \o <<"threshold", "risk_raise">>,
                                        r.log))
                     ELSE \E lo \in {x \in Closes : x <= df.close},
                             hi \in {x \in Closes : x >= df.close} :
                              Resume(symbol,
                                     signal_steps(r.reg, symbol, df, lo, hi, score,
                                                  direction[1],
                                                  ran6 \o <<"threshold">>, r.log))

\* The fetch of `symbol` returns and its coroutine runs on to its next await
\* or to its return, against a gate of `gate_params` parameters.  No await
\* lies between, so the event loop runs the stretch as one step.  A TypeError
\* of the gate call lands in `except Exception`, which logs it, and so does the
\* fault of the call that `fault` names.
Fetched(symbol, fetched, gate_params, fault) ==
    /\ scanner = "gather"
    /\ pc[symbol] = "fetch"
    /\ IF fetched = None
       THEN Resume(symbol, Ran(reg_now, "done", NoFrame, <<"fetch_none">>, <<>>))
       ELSE \E verdict \in BOOLEAN :
                LET gate == gate_anti_wash_trading(gate_params, verdict)
                    ran3 == <<"ohlcv", IF gate = "True" THEN "gate_pass" ELSE "gate_fail">>
                IN  IF gate = "TypeError"
                    THEN Resume(symbol, caught(reg_now, <<"ohlcv", "gate_raise">>, <<>>))
                    ELSE IF gate_rejects(gate)
                    THEN Resume(symbol, Ran(reg_now, "done", NoFrame, ran3, <<>>))
                    ELSE AfterGate(symbol, fetched[1], ran3, fault)
    /\ scanner' = scanner
    /\ UNCHANGED <<callVars, stageVars>>

\* send_signal returns (its bool is ignored) and step 11 calls
\* export_live_metrics with the score and the direction just locked.
NotifyDone(symbol) ==
    /\ pc[symbol] = "notify"
    /\ pc' = [pc EXCEPT ![symbol] = "export"]
    /\ frame' = [frame EXCEPT
                    ![symbol].signal = None,
                    ![symbol].telemetry =
                        Some(Telemetry(symbol, frame[symbol].current_price[1],
                                       frame[symbol].score[1],
                                       frame[symbol].direction[1]))]
    /\ steps' = [steps EXCEPT ![symbol] = @ \o <<"export">>]
    /\ UNCHANGED <<states, positions, scanner, openSignals>>
    /\ UNCHANGED <<callVars, stageVars>>

\* export_live_metrics returns (it never raises) and _process_pair returns.
ExportDone(symbol) ==
    /\ pc[symbol] = "export"
    /\ pc' = [pc EXCEPT ![symbol] = "done"]
    /\ frame' = [frame EXCEPT ![symbol] = NoFrame]
    /\ UNCHANGED <<states, positions, scanner, steps, openSignals>>
    /\ UNCHANGED <<callVars, stageVars>>

\* gather returning as soon as one pipeline has returned (FIRST_COMPLETED).
EndCycle_first_done ==
    /\ scanner = "gather"
    /\ \E s \in Symbols : pc[s] = "done"
    /\ scanner' = "sleep"
    /\ UNCHANGED <<states, positions, pc, frame, steps, openSignals>>
    /\ UNCHANGED <<callVars, stageVars>>

\* gather returns once every pipeline has returned; the scanner sleeps.
EndCycle ==
    /\ scanner = "gather"
    /\ \A s \in Symbols : pc[s] = "done"
    /\ scanner' = "sleep"
    /\ UNCHANGED <<states, positions, pc, frame, steps, openSignals>>
    /\ UNCHANGED <<callVars, stageVars>>

\* The scanner as written: the gate is the one-parameter function.
NextLive ==
    \/ StartCycle
    \/ \E symbol \in Symbols, fetched \in FetchResults :
           Fetched(symbol, fetched, GATE_PARAMS, "none")
    \/ EndCycle

SpecLive == InitReg /\ [][NextLive]_vars

\* The gate as defined, and a gate that takes the two arguments of the call.
GateArities == {GATE_PARAMS, GATE_ARGS}

\* The scanner over either gate: every step of the pipeline can be reached.
NextPipe ==
    \/ StartCycle
    \/ \E symbol \in Symbols, fetched \in FetchResults, gate_params \in GateArities :
           Fetched(symbol, fetched, gate_params, "none")
    \/ \E symbol \in Symbols : NotifyDone(symbol)
    \/ \E symbol \in Symbols : ExportDone(symbol)
    \/ EndCycle

SpecPipe == InitReg /\ [][NextPipe]_vars

\* -------------------------------------------------- faults and cancellation
\* The awaits of _process_pair: the fetch, send_signal, export_live_metrics
SuspensionPoints == {"fetch", "notify", "export"}

\* The call that `symbol` awaits raises an Exception (fetch_extended_ohlcv
\* awaits exchange.load_markets() outside its own try); `except Exception`
\* catches it and _process_pair returns.
AwaitRaises(symbol) ==
    /\ pc[symbol] \in SuspensionPoints
    /\ Resume(symbol, caught(reg_now, steps[symbol], <<>>))
    /\ scanner' = scanner
    /\ UNCHANGED <<callVars, stageVars>>

\* Mutant of Cancelled: the cancellation reaches every pipeline of the cycle.
Cancelled_all(symbol) ==
    /\ pc[symbol] \in SuspensionPoints
    /\ pc' = [s \in Symbols |-> "done"]
    /\ frame' = [s \in Symbols |-> NoFrame]
    /\ steps' = [s \in Symbols |->
                    IF pc[s] = "done" THEN steps[s] ELSE steps[s] \o <<"cancelled">>]
    /\ UNCHANGED <<states, positions, scanner, openSignals>>
    /\ UNCHANGED <<callVars, stageVars>>

\* The task of `symbol` is cancelled while it is suspended: CancelledError
\* is raised at its await, `except asyncio.CancelledError: raise` passes it
\* on, and gather(return_exceptions=True) keeps it as that task's result.
Cancelled(symbol) ==
    /\ pc[symbol] \in SuspensionPoints
    /\ pc' = [pc EXCEPT ![symbol] = "done"]
    /\ frame' = [frame EXCEPT ![symbol] = NoFrame]
    /\ steps' = [steps EXCEPT ![symbol] = @ \o <<"cancelled">>]
    /\ UNCHANGED <<states, positions, scanner, openSignals>>
    /\ UNCHANGED <<callVars, stageVars>>

\* The calls of the stretch after the gate that may raise, or none
FaultPoints == {"none", "score", "risk"}

\* Windows that close on one of the two levels
LevelFetchResults == {None} \cup {Some([close |-> c]) : c \in Levels}

\* The scanner over either gate, with faults and cancellations.
NextFault ==
    \/ StartCycle
    \/ \E symbol \in Symbols, fetched \in LevelFetchResults,
          gate_params \in GateArities, fault \in FaultPoints :
           Fetched(symbol, fetched, gate_params, fault)
    \/ \E symbol \in Symbols : NotifyDone(symbol)
    \/ \E symbol \in Symbols : ExportDone(symbol)
    \/ \E symbol \in Symbols : AwaitRaises(symbol)
    \/ \E symbol \in Symbols : Cancelled(symbol)
    \/ EndCycle

SpecFault == InitReg /\ [][NextFault]_vars

\* ------------------------------------------------------------ scoring engine
\* scoring_engine.py reads a window through a few derived numbers (a rolling
\* mean, two points of a rolling sum, the last VWAP, closes, the last candle's
\* extremes, the swing extremes of the 20 candles before it, the nearest
\* high-volume node) and compares them.  A window is the record of those
\* numbers; NaN and "no such level" are None.  Prices are integers near 1000
\* so that a proximity band of half a percent separates neighbours from far
\* levels; the percentages are in thousandths and the factor in tenths.

\* compute_score refuses a window shorter than this many rows.
MIN_SCORE_ROWS == 30

MOMENTUM_ROC_PERIOD == 5

\* OB_IMBALANCE_FACTOR = 1.2, in tenths.
OB_IMBALANCE_FACTOR == 12

\* OB_PROXIMITY_PCT = 0.005, in thousandths.
OB_PROXIMITY_PCT == 5

\* HVN_PROXIMITY_PCT = 0.005, in thousandths.
HVN_PROXIMITY_PCT == 5

\* _score_liquidity_zones needs this many rows.
min_rows == 22

\* if x > 0: 1 / if x < 0: -1 / 0
sign(x) == IF x > 0 THEN 1 ELSE IF x < 0 THEN -1 ELSE 0

\* Condition 1: the sign of the rolling mean of taker buy less taker sell.
_score_ofi(df) == sign(df.rolling_ofi)

\* Condition 2: the sign of the latest CVD less the CVD at the window's midpoint.
_score_cvd_trend(df) ==
    IF df.rows < 2 THEN 0
    ELSE LET slope == df.cvd_last - df.cvd_mid
         IN  sign(slope)

\* Condition 3: the close against the last VWAP; a NaN VWAP votes 0.
_score_vwap(df) ==
    IF df.vwap = None THEN 0
    ELSE IF df.close > df.vwap[1] THEN 1
    ELSE IF df.close < df.vwap[1] THEN -1
    ELSE 0

\* The momentum sub-vote: the sign of the rate of change over the period.
\* close_ago is positive, so roc has the sign of close_now - close_ago.
momentum_score(df) ==
    IF df.rows >= MOMENTUM_ROC_PERIOD + 1
    THEN sign(df.close - df.close_ago)
    ELSE 0

\* levels[:, 1].sum()
RECURSIVE sizes_sum(_)
sizes_sum(levels) ==
    IF levels = <<>> THEN 0 ELSE Head(levels)[2] + sizes_sum(Tail(levels))

\* orderbook.get(side, []) if orderbook else []
book_side(orderbook, side) ==
    IF orderbook = None THEN <<>> ELSE orderbook[1][side]

\* The book sub-vote with a missing side read as a side of no liquidity.
book_score_one_sided(orderbook) ==
    LET bids_raw == book_side(orderbook, "bids")
        asks_raw == book_side(orderbook, "asks")
        bid_liq == sizes_sum(bids_raw)
        ask_liq == sizes_sum(asks_raw)
    IN  IF bid_liq * 10 > ask_liq * OB_IMBALANCE_FACTOR THEN 1
        ELSE IF ask_liq * 10 > bid_liq * OB_IMBALANCE_FACTOR THEN -1
        ELSE 0

\* The book sub-vote: the liquidity within OB_PROXIMITY_PCT of the mid price,
\* bids against asks, one side winning when it exceeds the other by the factor.
\* lower = mid * (1 - pct) and upper = mid * (1 + pct), with mid = sum2 / 2.
book_score(orderbook) ==
    LET bids_raw == book_side(orderbook, "bids")
        asks_raw == book_side(orderbook, "asks")
    IN  IF bids_raw # <<>> /\ asks_raw # <<>>
        THEN LET sum2 == bids_raw[1][1] + asks_raw[1][1]
                 bid_liq == sizes_sum(SelectSeq(bids_raw,
                     LAMBDA l : l[1] * 2000 >= sum2 * (1000 - OB_PROXIMITY_PCT)))
                 ask_liq == sizes_sum(SelectSeq(asks_raw,
                     LAMBDA l : l[1] * 2000 <= sum2 * (1000 + OB_PROXIMITY_PCT)))
             IN  IF bid_liq * 10 > ask_liq * OB_IMBALANCE_FACTOR THEN 1
                 ELSE IF ask_liq * 10 > bid_liq * OB_IMBALANCE_FACTOR THEN -1
                 ELSE 0
        ELSE 0

\* Condition 4 as a vote that needs the book's active agreement.
agree_strict(m, b) ==
    IF m = 1 /\ b = 1 THEN 1
    ELSE IF m = -1 /\ b = -1 THEN -1
    ELSE 0

\* "Require both sub-components to agree": a neutral book agrees with either.
agree(m, b) ==
    IF m = 1 /\ b >= 0 THEN 1
    ELSE IF m = -1 /\ b <= 0 THEN -1
    ELSE 0

\* Condition 4: momentum and order-book clearance.
_score_momentum_and_orderbook(df, orderbook) ==
    agree(momentum_score(df), book_score(orderbook))

\* Condition 5: a swing sweep first, else the nearest high-volume node when
\* the close is within HVN_PROXIMITY_PCT of it.
_score_liquidity_zones(df) ==
    IF df.rows < min_rows THEN 0
    ELSE IF df.high > df.swing_high /\ df.close < df.swing_high THEN -1
    ELSE IF df.low < df.swing_low /\ df.close > df.swing_low THEN 1
    ELSE IF df.hvn = None THEN 0
    ELSE LET nearest_hvn == df.hvn[1]
         IN  IF abs(df.close - nearest_hvn) * 1000 <= HVN_PROXIMITY_PCT * nearest_hvn
             THEN (IF df.close >= nearest_hvn THEN 1 ELSE -1)
             ELSE 0

\* c1 .. c5 of compute_score
condition_votes(df, orderbook) ==
    LET ob == orderbook
    IN  << _score_ofi(df), _score_cvd_trend(df), _score_vwap(df),
           _score_momentum_and_orderbook(df, ob), _score_liquidity_zones(df) >>

\* Whether compute_score returns 0 before it looks at the window.
insufficient(window) == window = None \/ window[1].rows < MIN_SCORE_ROWS

\* compute_score with condition 4 counted twice.
compute_score_weighted(window, orderbook) ==
    IF insufficient(window) THEN 0
    ELSE LET c == condition_votes(window[1], orderbook)
         IN  c[1] + c[2] + c[3] + 2 * c[4] + c[5]

\* compute_score(df, orderbook): the window is Optional (df may be None).
compute_score(window, orderbook) ==
    IF insufficient(window) THEN 0
    ELSE LET c == condition_votes(window[1], orderbook)
             total == c[1] + c[2] + c[3] + c[4] + c[5]
         IN  total

\* ---- the windows and books the engine is applied to
\* Windows of 29 and 30 rows, by the features the five conditions read.
ScoreWindows ==
    [rows : {MIN_SCORE_ROWS - 1, MIN_SCORE_ROWS}, rolling_ofi : {-2, 0, 2},
     cvd_last : {0, 1}, cvd_mid : {0, 1},
     vwap : {None, Some(1000)}, close : {999, 1000, 1001}, close_ago : {999, 1001},
     high : {1001, 1003}, low : {997, 999},
     swing_high : {1002}, swing_low : {998}, hvn : {None, Some(1000), Some(1010)}]

\* One side of a book, best level first: nothing, the best level alone, or
\* the best level and a second one (for the bids a level far below the mid).
BidSides == {<<>>, << <<1000, 1>> >>, << <<1000, 2>>, <<990, 3>> >>}

AskSides == {<<>>, << <<1001, 1>> >>, << <<1001, 2>>, <<1002, 1>> >>}

OrderBooks == {None} \cup {Some([bids |-> b, asks |-> a]) : b \in BidSides, a \in AskSides}

\* A call that has been handed its arguments and has not run yet.
Pending(window, orderbook) ==
    [df |-> Some(window), orderbook |-> Some(orderbook), votes |-> <<>>, ret |-> None]

\* Before a compute_score call: any window (or no frame at all), any book.
InitScore ==
    /\ InitProgram
    /\ \E window \in {None} \cup {Some(w) : w \in ScoreWindows}, orderbook \in OrderBooks :
           scored = Pending(window, orderbook)
    /\ gated = NoGate
    /\ risked = NoRisk
    /\ ingested = NoFetch

\* score = compute_score(df, orderbook)
ComputeScore ==
    /\ scored.df # None
    /\ scored.ret = None
    /\ LET window == scored.df[1]
           orderbook == scored.orderbook[1]
       IN  scored' = [scored EXCEPT
               !.votes = IF insufficient(window) THEN <<>>
                         ELSE condition_votes(window[1], orderbook),
               !.ret = Some(compute_score(window, orderbook))]
    /\ UNCHANGED <<states, positions>>
    /\ UNCHANGED <<callVars, pipeVars, gated, risked, ingested>>

SpecScore == InitScore /\ [][ComputeScore]_vars

\* --------------------------------------------------------------- quality gate
\* gate_anti_wash_trading on a window of candles.  Volumes are integers, so
\* the efficiency threshold is in ten-thousandths and the taker band in
\* hundredths; an ATR is carried as the sum of its true ranges (the mean
\* times its period), and an ATR mean as the sum of those sums.

ATR_MA_PERIOD == 24

ATR_PERIOD == 14

\* MIN_VOLUME_EFFICIENCY = 0.0002, in ten-thousandths.
MIN_VOLUME_EFFICIENCY == 2

\* WASH_TRADE_TAKER_RATIO_LOW = 0.49, in hundredths.
WASH_TRADE_TAKER_RATIO_LOW == 49

\* WASH_TRADE_TAKER_RATIO_HIGH = 0.51, in hundredths.
WASH_TRADE_TAKER_RATIO_HIGH == 51

min_required == ATR_MA_PERIOD + ATR_PERIOD + 2

max2(a, b) == IF a >= b THEN a ELSE b

\* TR = max(High - Low, |High - Prev_Close|, |Low - Prev_Close|); the first
\* row has no previous close and max(axis=1) skips the two NaN terms.
true_range(df, i) ==
    IF i = 1 THEN df[i].high - df[i].low
    ELSE max2(df[i].high - df[i].low,
              max2(abs(df[i].high - df[i - 1].close), abs(df[i].low - df[i - 1].close)))

RECURSIVE tr_sum(_, _, _)
tr_sum(df, from, to) ==
    IF from > to THEN 0 ELSE true_range(df, to) + tr_sum(df, from, to - 1)

\* compute_atr(df, period) at row i: NaN before `period` rows exist, else the
\* rolling mean of TR, carried as the sum over the last `period` rows.
compute_atr(df, period, i) ==
    IF i < period THEN None ELSE Some(tr_sum(df, i - period + 1, i))

RECURSIVE atr_sum(_, _, _)
atr_sum(df, from, to) ==
    IF from > to THEN 0
    ELSE compute_atr(df, ATR_PERIOD, to)[1] + atr_sum(df, from, to - 1)

\* atr_series.rolling(ATR_MA_PERIOD, min_periods=ATR_MA_PERIOD).mean() at row
\* i: NaN until ATR_MA_PERIOD ATR values exist, else their sum.
atr_ma(df, i) ==
    IF i < ATR_PERIOD + ATR_MA_PERIOD - 1 THEN None
    ELSE Some(atr_sum(df, i - ATR_MA_PERIOD + 1, i))

\* The gate reading the live candle, df.iloc[-1].
completed_live(df) == Len(df)

\* df.iloc[-2]: the last completed candle.
completed(df) == Len(df) - 1

\* The band test with open ends: low < ratio < high.
in_taker_band_open(candle) ==
    /\ WASH_TRADE_TAKER_RATIO_LOW * candle.volume < candle.taker_buy_volume * 100
    /\ candle.taker_buy_volume * 100 < WASH_TRADE_TAKER_RATIO_HIGH * candle.volume

\* low <= taker_buy / total_volume <= high
in_taker_band(candle) ==
    /\ WASH_TRADE_TAKER_RATIO_LOW * candle.volume <= candle.taker_buy_volume * 100
    /\ candle.taker_buy_volume * 100 <= WASH_TRADE_TAKER_RATIO_HIGH * candle.volume

\* The length test without the two rows the gate adds to the ATR warm-up.
too_short_warmup_only(df) == df = <<>> \/ Len(df) < ATR_MA_PERIOD + ATR_PERIOD

\* if df.empty or len(df) < min_required
too_short(df) == df = <<>> \/ Len(df) < min_required

\* The body of gate_anti_wash_trading(df).
gate_body(df) ==
    IF too_short(df) THEN FALSE
    ELSE LET i == completed(df)
             candle == df[i]
             total_volume == candle.volume
             price_displacement == abs(candle.close - candle.open)
             latest_atr == compute_atr(df, ATR_PERIOD, i)
             latest_atr_ma == atr_ma(df, i)
         IN  IF total_volume <= 0 THEN FALSE
             ELSE IF price_displacement * 10000 < MIN_VOLUME_EFFICIENCY * total_volume
                  THEN FALSE
             ELSE IF latest_atr = None \/ latest_atr_ma = None THEN FALSE
             ELSE IF latest_atr[1] * ATR_MA_PERIOD < latest_atr_ma[1] THEN FALSE
             ELSE IF in_taker_band(candle) THEN FALSE
             ELSE TRUE

\* ---- the windows the gate is applied to
Candle(open, high, low, close, volume, taker_buy_volume) ==
    [open |-> open, high |-> high, low |-> low, close |-> close,
     volume |-> volume, taker_buy_volume |-> taker_buy_volume]

\* Candles of the history: a narrow range (TR 2) and a wide one (TR 4).
HistoryCandles ==
    {Candle(1000, 1001, 999, 1000, 10000, 6000),
     Candle(1000, 1003, 999, 1000, 10000, 6000)}

\* The second-to-last candle: a displacement of 1, 2 or 3 on volume 10000
\* (efficiency below, on and above the threshold), a TR of 4 or 10, and for
\* volume and taker-buy volume either no volume or a ratio of 0.48, 0.49,
\* 0.50, 0.51 or 0.52.
EvalCandles ==
    {Candle(1000, h, 999, c, vt[1], vt[2]) :
        h \in {1003, 1009}, c \in {1001, 1002, 1003},
        vt \in {<<0, 0>>} \cup {<<10000, t>> : t \in {4800, 4900, 5000, 5100, 5200}}}

\* The still-forming candle: dead, clean, or wild and balanced.
LastCandles ==
    {Candle(1000, 1001, 999, 1000, 0, 0),
     Candle(1000, 1003, 999, 1003, 10000, 9000),
     Candle(1000, 1050, 950, 1040, 10000, 5000)}

\* n candles: the first half `early`, then `late`, then the evaluated candle
\* and the still-forming one.
window(n, early, late, eval, last) ==
    [i \in 1..n |-> IF i = n THEN last
                    ELSE IF i = n - 1 THEN eval
                    ELSE IF i <= n \div 2 THEN early ELSE late]

GateWindows ==
    {window(n, early, late, eval, last) :
        n \in {0, 1, min_required - 1, min_required, min_required + 1},
        early \in HistoryCandles, late \in HistoryCandles,
        eval \in EvalCandles, last \in LastCandles}

\* Before a gate call: any window.
InitGate ==
    /\ InitProgram
    /\ scored = NoScore
    /\ \E df \in GateWindows : gated = [df |-> Some(df), ret |-> None]
    /\ risked = NoRisk
    /\ ingested = NoFetch

\* gate_anti_wash_trading(df)
ApplyGate ==
    /\ gated.df # None
    /\ gated.ret = None
    /\ gated' = [gated EXCEPT !.ret = Some(gate_body(gated.df[1]))]
    /\ UNCHANGED <<states, positions>>
    /\ UNCHANGED <<callVars, pipeVars, scored, risked, ingested>>

SpecGate == InitGate /\ [][ApplyGate]_vars

\* ---- the gate and the scoring engine on short windows
\* Windows of at most min_required candles whose evaluated candle, where
\* there is one, has an efficiency and a taker ratio that pass.
EdgeGateWindows ==
    {df \in GateWindows :
        /\ Len(df) <= min_required
        /\ Len(df) >= 2 =>
              LET candle == df[Len(df) - 1]
              IN  /\ candle.volume > 0
                  /\ abs(candle.close - candle.open) * 10000
                        >= MIN_VOLUME_EFFICIENCY * candle.volume
                  /\ ~in_taker_band(candle)}

\* Windows of 0, 29 and 30 rows whose five conditions all vote the same way.
EdgeScoreWindows ==
    {[w EXCEPT !.rows = rows] : rows \in {0, MIN_SCORE_ROWS - 1, MIN_SCORE_ROWS},
        w \in {v \in ScoreWindows :
                 /\ v.hvn = None
                 /\ condition_votes(v, None) \in {<<1, 1, 1, 1, 1>>, <<-1, -1, -1, -1, -1>>}}}

\* Before a gate call and a compute_score call, each on a window of its own.
InitEdge ==
    /\ InitProgram
    /\ \E df \in EdgeGateWindows : gated = [df |-> Some(df), ret |-> None]
    /\ \E w \in EdgeScoreWindows : scored = Pending(Some(w), None)
    /\ risked = NoRisk
    /\ ingested = NoFetch

SpecEdge == InitEdge /\ [][ApplyGate \/ ComputeScore]_vars

\* ------------------------------------------------------------ risk calculator
\* calculate_risk_params as a call on a window.  The window is the record of
\* what the code reads: its length, the last close, the rolling mean of the
\* true range at iloc[-2] (NaN, here None, while fewer than ATR_PERIOD rows
\* precede it), the sorted HVN levels and the swing extremes.  Prices are
\* integers in units of 1e-9, a tenth of the 8-decimal quantum of the
\* returned record, so that round(x, 8) is a conversion that can merge
\* neighbouring prices.

\* ATR_SL_MULTIPLIER = 1.5, in tenths.
ATR_SL_MULTIPLIER == 15

\* 1e-8, the quantum of round(x, 8), in price units.
QUANTUM == 10

\* round(x, 8): to the nearest multiple of the quantum, ties to even.
round8(x) ==
    LET q == x \div QUANTUM
        r == x % QUANTUM
    IN  IF 2 * r < QUANTUM THEN q * QUANTUM
        ELSE IF 2 * r > QUANTUM THEN (q + 1) * QUANTUM
        ELSE IF q % 2 = 0 THEN q * QUANTUM ELSE (q + 1) * QUANTUM

Raise(exception) == [raised |-> exception, value |-> None, levels |-> None]

Return(value, levels) == [raised |-> "", value |-> value, levels |-> levels]

\* _compute_atr(df): the rolling mean at iloc[-2], 0.0 when it is NaN.
\* A frame of one row has no iloc[-2]: the indexer raises IndexError.
_compute_atr(df) ==
    IF df.rows < 2 THEN Raise("IndexError")
    ELSE Return(IF df.tr_mean = None THEN 0 ELSE df.tr_mean[1], None)

\* levels[levels > price][0]
_find_nearest_above(levels, price) ==
    LET above == SelectSeq(levels, LAMBDA l : l > price)
    IN  IF above # <<>> THEN Some(above[1]) ELSE None

\* The level search below the price that takes the lowest level, below[0].
_find_nearest_below_lowest(levels, price) ==
    LET below == SelectSeq(levels, LAMBDA l : l < price)
    IN  IF below # <<>> THEN Some(below[1]) ELSE None

\* levels[levels < price][-1]
_find_nearest_below(levels, price) ==
    LET below == SelectSeq(levels, LAMBDA l : l < price)
    IN  IF below # <<>> THEN Some(below[Len(below)]) ELSE None

\* x if x is not None else fallback
or_else(x, fallback) == IF x = None THEN fallback ELSE x[1]

\* entry, the stop anchor, the buffer, sl and tp, as lines 168-200 set them.
risk_levels(df, direction, atr) ==
    LET entry == df.close
        sl_buffer == (atr * ATR_SL_MULTIPLIER) \div 10
        below == or_else(_find_nearest_below(df.hvn_levels, entry), df.swing_low)
        above == or_else(_find_nearest_above(df.hvn_levels, entry), df.swing_high)
    IN  IF direction = "LONG"
        THEN [entry |-> entry, sl_anchor |-> below, sl_buffer |-> sl_buffer,
              sl |-> below - sl_buffer, tp |-> above]
        ELSE [entry |-> entry, sl_anchor |-> above, sl_buffer |-> sl_buffer,
              sl |-> above + sl_buffer, tp |-> below]

\* The sanity checks, the ratio test and the returned record (lines 202-246).
risk_validate(direction, entry, sl, tp) ==
    LET risk == abs(entry - sl)
        reward == abs(tp - entry)
    IN  IF direction = "LONG" /\ (sl >= entry \/ tp <= entry) THEN None
        ELSE IF direction = "SHORT" /\ (sl <= entry \/ tp >= entry) THEN None
        ELSE IF risk <= 0 THEN None
        ELSE IF round3(reward, risk) < MIN_RR_RATIO THEN None
        ELSE Some(RiskParams(round8(entry), round8(sl), round8(tp), round3(reward, risk)))

\* calculate_risk_params(df, direction): what it raises, or what it returns
\* together with the levels it resolved.
risk_call(df, direction) ==
    IF df.rows = 0 THEN Return(None, None)
    ELSE IF direction \notin {"LONG", "SHORT"} THEN Return(None, None)
    ELSE LET atr == _compute_atr(df)
         IN  IF atr.raised # "" THEN Raise(atr.raised)
             ELSE LET lv == risk_levels(df, direction, atr.value)
                  IN  Return(risk_validate(direction, lv.entry, lv.sl, lv.tp), Some(lv))

\* ---- the windows the calculator is applied to
\* HVN levels below and above the last prices, ascending, at most two a side.
HvnsBelow ==
    {<<>>, <<5000, 7500>>} \cup {<<l>> : l \in {5000, 5001, 5250, 7500, 9996}}

HvnsAbove ==
    {<<>>, <<12500, 15000>>} \cup {<<l>> : l \in {10004, 12500, 14750, 14999, 15000}}

SWING_LOOKBACK == 20

\* Windows of 0, 1, 2, ATR_PERIOD + 1 and min_required rows; last closes and
\* HVN levels a few units apart and thousands apart; a true-range mean of 0
\* or 1000 where ATR_PERIOD rows end at iloc[-2] and NaN where they do not;
\* swing extremes at the last close (a flat lookback) or around it.  The
\* features agree with one another as they do on a frame: a flat lookback
\* has no true range, and while the lookback covers the whole window every
\* HVN level (a bin midpoint) lies strictly inside the swing extremes.
RiskWindows ==
    {w \in
        {[rows |-> rows, close |-> close, tr_mean |-> tr_mean,
          hvn_levels |-> below \o above,
          swing_low |-> close - band[1], swing_high |-> close + band[2]] :
            rows \in {0, 1, 2, ATR_PERIOD + 1, min_required},
            close \in {9996, 10000, 10004},
            tr_mean \in {None, Some(0), Some(1000)},
            below \in HvnsBelow, above \in HvnsAbove,
            band \in {<<0, 0>>, <<2500, 5000>>, <<5000, 2500>>, <<6000, 6000>>}} :
        /\ (w.tr_mean = None) <=> (w.rows - 1 < ATR_PERIOD)
        /\ (w.swing_low = w.swing_high /\ w.tr_mean # None) => w.tr_mean = Some(0)
        /\ w.rows <= SWING_LOOKBACK =>
              \A i \in DOMAIN w.hvn_levels :
                  w.swing_low < w.hvn_levels[i] /\ w.hvn_levels[i] < w.swing_high}

RiskDirections == {"LONG", "SHORT", "IDLE"}

\* Before a calculate_risk_params call: any window, any direction.
InitRisk ==
    /\ InitProgram
    /\ scored = NoScore
    /\ gated = NoGate
    /\ \E df \in RiskWindows, direction \in RiskDirections :
           risked = [df |-> Some(df), direction |-> Some(direction), ret |-> None]
    /\ ingested = NoFetch

\* risk_params = calculate_risk_params(df, direction)
CalculateRisk ==
    /\ risked.df # None
    /\ risked.ret = None
    /\ risked' = [risked EXCEPT !.ret = Some(risk_call(risked.df[1], risked.direction[1]))]
    /\ UNCHANGED <<states, positions>>
    /\ UNCHANGED <<callVars, pipeVars, scored, gated, ingested>>

SpecRisk == InitRisk /\ [][CalculateRisk]_vars

\* --------------------------------------------------------------- data ingestion
\* fetch_extended_ohlcv and fetch_orderbook as calls on an exchange whose
\* answers are drawn one await at a time.  `ingested.answers` lists, in order,
\* every exchange call the function has made and what came back.

MAX_RETRIES == 3

Answer(call, answer) == [call |-> call, answer |-> answer]

\* The calls of `call` among the answers so far.
calls_of(answers, call) == SelectSeq(answers, LAMBDA a : a.call = call)

\* volume * 0.5.  Volumes of the windows are even counts, so the half is
\* exact, as halving is in binary floating point.
half(volume) == volume \div 2

\* _parse_binance_klines(raw, symbol): None for an empty answer or one whose
\* rows have fewer than 10 columns, else the frame with taker_buy_volume
\* taken from the taker_buy_base_volume column.
_parse_binance_klines(raw) ==
    IF raw.rows = <<>> \/ raw.columns < 10 THEN None
    ELSE Some([i \in 1..Len(raw.rows) |->
                  Candle(raw.rows[i].open, raw.rows[i].high, raw.rows[i].low,
                         raw.rows[i].close, raw.rows[i].volume,
                         raw.rows[i].taker_buy_base_volume)])

\* The fallback frame with every trade counted as a taker buy.
fallback_frame_all_buy(rows) ==
    [i \in 1..Len(rows) |->
        Candle(rows[i].open, rows[i].high, rows[i].low, rows[i].close,
               rows[i].volume, rows[i].volume)]

\* The frame _fallback_fetch_ohlcv builds from the six generic columns:
\* taker_buy_volume = volume * 0.5.
fallback_frame(rows) ==
    [i \in 1..Len(rows) |->
        Candle(rows[i].open, rows[i].high, rows[i].low, rows[i].close,
               rows[i].volume, half(rows[i].volume))]

\* What the raw kline endpoint holds for a window of candles.
kline_rows(df) ==
    [i \in 1..Len(df) |->
        [open |-> df[i].open, high |-> df[i].high, low |-> df[i].low,
         close |-> df[i].close, volume |-> df[i].volume,
         taker_buy_base_volume |-> df[i].taker_buy_volume]]

\* The answer of the raw endpoint by its label.
kline_response(rows, answer) ==
    IF answer = "empty" THEN [columns |-> 12, rows |-> <<>>]
    ELSE IF answer = "short_columns" THEN [columns |-> 9, rows |-> rows]
    ELSE [columns |-> 12, rows |-> rows]

KlineAnswers ==
    {"klines", "empty", "short_columns", "BadSymbol", "NetworkError",
     "RequestTimeout", "ExchangeError", "Exception"}

GenericAnswers == {"ohlcv", "empty", "Exception"}

BookAnswers == {"book", "NetworkError", "RequestTimeout", "ExchangeError", "Exception"}

\* except (ccxt.NetworkError, ccxt.RequestTimeout)
is_network_error(answer) == answer \in {"NetworkError", "RequestTimeout"}

\* The loop with one attempt too many: range(1, MAX_RETRIES + 2).
next_attempt_one_more(attempt) == IF attempt <= MAX_RETRIES THEN None ELSE Some(None)

\* A loop iteration that ends without a return: the loop goes on to the next
\* attempt, or falls out of `for` to the final `return None`.
next_attempt(attempt) == IF attempt < MAX_RETRIES THEN None ELSE Some(None)

\* The windows the exchange holds: one candle, or enough for the gate, with
\* an evaluated candle whose efficiency passes and whose taker ratio is 0.48
\* or 0.50.
ExchangeWindows ==
    {df \in GateWindows :
        /\ Len(df) \in {1, min_required, min_required + 1}
        /\ df[Len(df)] = Candle(1000, 1003, 999, 1003, 10000, 9000)
        /\ Len(df) >= 2 =>
              LET candle == df[Len(df) - 1]
              IN  /\ candle.close \in {1002, 1003}
                  /\ candle.taker_buy_volume \in {4800, 5000}}

ExchangeBooks == {[bids |-> << <<1000, 2>> >>, asks |-> << <<1001, 1>> >>],
                  [bids |-> <<>>, asks |-> <<>>]}

Fetching(fn, raw) == [fn |-> fn, raw |-> Some(raw), answers |-> <<>>, raised |-> "", ret |-> None]

\* Before a fetch call: the function, and what the exchange holds.
InitFetch ==
    /\ InitProgram
    /\ scored = NoScore
    /\ gated = NoGate
    /\ risked = NoRisk
    /\ \/ \E df \in ExchangeWindows : ingested = Fetching("fetch_extended_ohlcv", kline_rows(df))
       \/ \E ob \in ExchangeBooks : ingested = Fetching("fetch_orderbook", ob)

running(fn) == ingested.fn = fn /\ ingested.raised = "" /\ ingested.ret = None

\* market = exchange.market(symbol), ahead of the retry loop: ccxt raises
\* BadSymbol for a symbol the exchange does not list, outside every try.
LookupMarket ==
    /\ running("fetch_extended_ohlcv")
    /\ ingested.answers = <<>>
    /\ \E answer \in {"market", "BadSymbol"} :
           ingested' = [ingested EXCEPT
               !.answers = <<Answer("market", answer)>>,
               !.raised = IF answer = "BadSymbol" THEN "BadSymbol" ELSE ""]
    /\ UNCHANGED <<states, positions>>
    /\ UNCHANGED <<callVars, pipeVars, scored, gated, risked>>

\* One iteration of `for attempt in range(1, MAX_RETRIES + 1)` in
\* fetch_extended_ohlcv, up to its return, its next iteration or the call of
\* the fallback.
FetchKlines ==
    /\ running("fetch_extended_ohlcv")
    /\ ingested.answers # <<>>
    /\ ingested.answers[Len(ingested.answers)].answer # "ExchangeError"
    /\ LET attempt == Len(calls_of(ingested.answers, "fapiPublicGetKlines")) + 1
       IN  \E answer \in KlineAnswers :
               LET raw == kline_response(ingested.raw[1], answer)
                   df == _parse_binance_klines(raw)
               IN  ingested' = [ingested EXCEPT
                       !.answers = Append(@, Answer("fapiPublicGetKlines", answer)),
                       !.ret = IF answer \in {"BadSymbol", "Exception"} THEN Some(None)
                               ELSE IF answer = "ExchangeError" THEN None
                               ELSE IF is_network_error(answer) THEN next_attempt(attempt)
                               ELSE IF raw.rows = <<>> THEN next_attempt(attempt)
                               ELSE IF df # None THEN Some(df)
                               ELSE next_attempt(attempt)]
    /\ UNCHANGED <<states, positions>>
    /\ UNCHANGED <<callVars, pipeVars, scored, gated, risked>>

\* return await _fallback_fetch_ohlcv(exchange, symbol, timeframe, limit)
FallbackFetch ==
    /\ running("fetch_extended_ohlcv")
    /\ ingested.answers # <<>>
    /\ ingested.answers[Len(ingested.answers)].answer = "ExchangeError"
    /\ \E answer \in GenericAnswers :
           ingested' = [ingested EXCEPT
               !.answers = Append(@, Answer("fetch_ohlcv", answer)),
               !.ret = IF answer = "ohlcv" THEN Some(Some(fallback_frame(ingested.raw[1])))
                       ELSE Some(None)]
    /\ UNCHANGED <<states, positions>>
    /\ UNCHANGED <<callVars, pipeVars, scored, gated, risked>>

\* One iteration of the loop of fetch_orderbook.
FetchOrderBook ==
    /\ running("fetch_orderbook")
    /\ LET attempt == Len(ingested.answers) + 1
           ob == ingested.raw[1]
       IN  \E answer \in BookAnswers :
               ingested' = [ingested EXCEPT
                   !.answers = Append(@, Answer("fetch_order_book", answer)),
                   !.ret = IF answer = "book"
                               THEN Some(Some([bids |-> ob.bids, asks |-> ob.asks]))
                           ELSE IF is_network_error(answer) THEN next_attempt(attempt)
                           ELSE Some(None)]
    /\ UNCHANGED <<states, positions>>
    /\ UNCHANGED <<callVars, pipeVars, scored, gated, risked>>

\* The pipeline hands a frame that is neither None nor empty to the gate.
PassToGate ==
    /\ ingested.fn = "fetch_extended_ohlcv"
    /\ ingested.ret # None
    /\ ingested.ret[1] # None
    /\ ingested.ret[1][1] # <<>>
    /\ gated = NoGate
    /\ gated' = [df |-> ingested.ret[1], ret |-> None]
    /\ UNCHANGED <<states, positions>>
    /\ UNCHANGED <<callVars, pipeVars, scored, risked, ingested>>

SpecFetch ==
    InitFetch /\ [][LookupMarket \/ FetchKlines \/ FallbackFetch \/ FetchOrderBook
                     \/ PassToGate \/ ApplyGate]_vars

\* ------------------------------------------------------ registry contracts
IsLockCall == lastCall.op = "lock_pair"

IsUpdateCall == lastCall.op = "update_virtual_positions"

\* The symbol is IDLE with no position now.
ClosedNow(s) == states[s] = "IDLE" /\ positions[s] = None

\* The symbol's state and position are what they were before the call.
KeptNow(s) == states[s] = before.states[s] /\ positions[s] = before.positions[s]

\* The UNLOCKED records a log holds for one symbol.
UnlockEvents(log, s) ==
    SelectSeq(log, LAMBDA e : e.event = "UNLOCKED" /\ e.symbol = s)

TpBreached(p, price) ==
    \/ p.direction = "LONG" /\ price >= p.tp
    \/ p.direction = "SHORT" /\ price <= p.tp

SlBreached(p, price) ==
    \/ p.direction = "LONG" /\ price <= p.sl
    \/ p.direction = "SHORT" /\ price >= p.sl

\* C1: lock_pair on a tracked symbol that is not IDLE returns False and
\* leaves that symbol's state and position as they were, whatever the
\* direction, risk and score arguments.
C1_LockRefusedWhenNotIdle ==
    \A s \in Symbols :
        (IsLockCall /\ lastCall.symbol = s /\ before.states[s] # "IDLE")
            => (lastCall.ret = "False" /\ KeptNow(s))

\* A SHORT symbol was asked to lock LONG with other levels, and refused.
C1_Witness ==
    \E s \in Symbols :
        /\ IsLockCall /\ lastCall.symbol = s
        /\ before.states[s] = "SHORT"
        /\ lastCall.args[1].direction = "LONG"
        /\ lastCall.args[1].tp # before.positions[s][1].tp
        /\ lastCall.ret = "False"

\* C6: update_virtual_positions closes an open position exactly on breach:
\* a LONG position goes to IDLE iff price >= tp or price <= sl, a SHORT
\* position iff price <= tp or price >= sl; at every other price the state
\* and the position stay as they were.
C6_ResolveClosesExactlyOnBreach ==
    IsUpdateCall =>
        \A s \in DOMAIN lastCall.prices :
            before.positions[s] # None =>
                LET p == before.positions[s][1]
                    price == lastCall.prices[s]
                IN  /\ p.direction = "LONG"
                        => (ClosedNow(s) <=> (price >= p.tp \/ price <= p.sl))
                    /\ p.direction = "SHORT"
                        => (ClosedNow(s) <=> (price <= p.tp \/ price >= p.sl))
                    /\ ~ClosedNow(s) => KeptNow(s)

\* One call closed a LONG position on its stop and left a SHORT one open
\* at a price between its levels.
C6_Witness ==
    /\ IsUpdateCall
    /\ \E s \in DOMAIN lastCall.prices :
           /\ before.positions[s] # None
           /\ before.positions[s][1].direction = "LONG"
           /\ lastCall.prices[s] <= before.positions[s][1].sl
           /\ lastCall.prices[s] < before.positions[s][1].tp
           /\ ClosedNow(s)
    /\ \E s \in DOMAIN lastCall.prices :
           /\ before.positions[s] # None
           /\ before.positions[s][1].direction = "SHORT"
           /\ lastCall.prices[s] > before.positions[s][1].tp
           /\ lastCall.prices[s] < before.positions[s][1].sl
           /\ states[s] = "SHORT"

\* C7: when one price satisfies both the take-profit and the stop-loss
\* predicate of an open position, the call closes it exactly once, with
\* reason TP_HIT.
C7_TakeProfitWinsTie ==
    IsUpdateCall =>
        \A s \in DOMAIN lastCall.prices :
            (/\ before.positions[s] # None
             /\ TpBreached(before.positions[s][1], lastCall.prices[s])
             /\ SlBreached(before.positions[s][1], lastCall.prices[s]))
                => /\ ClosedNow(s)
                   /\ UnlockEvents(events, s) =
                          <<[event |-> "UNLOCKED", symbol |-> s,
                             was |-> before.states[s], reason |-> "TP_HIT"]>>

\* A SHORT position with tp above sl met a price between the two.
C7_Witness ==
    /\ IsUpdateCall
    /\ \E s \in DOMAIN lastCall.prices :
           /\ before.positions[s] # None
           /\ before.positions[s][1].direction = "SHORT"
           /\ lastCall.prices[s] < before.positions[s][1].tp
           /\ lastCall.prices[s] > before.positions[s][1].sl
           /\ ClosedNow(s)

\* The price lies strictly between the two levels, whichever is the higher.
StrictlyBetween(p, price) ==
    \/ p.sl < price /\ price < p.tp
    \/ p.tp < price /\ price < p.sl

\* The price lies strictly inside the band as the direction orders it:
\* above the stop and below the target for LONG, the mirror for SHORT.
InsideBand(p, price) ==
    \/ p.direction = "LONG" /\ p.sl < price /\ price < p.tp
    \/ p.direction = "SHORT" /\ p.tp < price /\ price < p.sl

\* C8 as stated: after a successful lock with any direction and risk
\* parameters, resolving at a price strictly between stop-loss and
\* take-profit leaves the state and the position unchanged.
C8_AsStated ==
    IsUpdateCall =>
        \A s \in DOMAIN lastCall.prices :
            (/\ before.positions[s] # None
             /\ StrictlyBetween(before.positions[s][1], lastCall.prices[s]))
                => KeptNow(s)

\* C8, amended: the round trip leaves the state and the position unchanged
\* when the price is inside the band in the direction's own order
\* (sl < price < tp for LONG, tp < price < sl for SHORT).
C8_RoundTripInsideBand ==
    IsUpdateCall =>
        \A s \in DOMAIN lastCall.prices :
            (/\ before.positions[s] # None
             /\ InsideBand(before.positions[s][1], lastCall.prices[s]))
                => (KeptNow(s) /\ states[s] \in {"LONG", "SHORT"})

\* A SHORT position was resolved at a price inside its band.
C8_Witness ==
    /\ IsUpdateCall
    /\ \E s \in DOMAIN lastCall.prices :
           /\ before.positions[s] # None
           /\ before.positions[s][1].direction = "SHORT"
           /\ InsideBand(before.positions[s][1], lastCall.prices[s])
           /\ positions[s] = before.positions[s]

\* C9: update_virtual_positions is a no-op on an IDLE symbol at every price:
\* the symbol stays IDLE with no position and no close is logged for it; so
\* after any update call, a further one changes nothing for the symbols that
\* are IDLE by then.
C9_ResolveIdleIsNoop ==
    IsUpdateCall =>
        /\ \A s \in Symbols :
               before.states[s] = "IDLE"
                   => (ClosedNow(s) /\ UnlockEvents(events, s) = <<>>)
        /\ \A cp \in PriceMaps :
               LET again == update_virtual_positions(reg_now, cp)
               IN  \A s \in Symbols :
                       states[s] = "IDLE"
                           => /\ again.reg.states[s] = "IDLE"
                              /\ again.reg.positions[s] = None
                              /\ UnlockEvents(again.log, s) = <<>>

\* A price was supplied for an IDLE symbol while the same call closed the
\* other symbol's position.
C9_Witness ==
    /\ IsUpdateCall
    /\ \E s \in DOMAIN lastCall.prices, o \in DOMAIN lastCall.prices :
           /\ before.states[s] = "IDLE"
           /\ before.positions[o] # None
           /\ ClosedNow(o)
           /\ ClosedNow(s)

\* C10: a symbol with no entry in current_prices keeps its state and its
\* position, whatever prices the mapping holds for other symbols.
C10_AbsentPriceUntouched ==
    IsUpdateCall =>
        \A s \in Symbols \ DOMAIN lastCall.prices : KeptNow(s)

\* A LONG position without a price stayed open while the other symbol was
\* closed at a price that is on or beyond both of the LONG position's levels.
C10_Witness ==
    /\ IsUpdateCall
    /\ \E s \in Symbols \ DOMAIN lastCall.prices, o \in DOMAIN lastCall.prices :
           /\ before.positions[s] # None
           /\ before.positions[s][1].direction = "LONG"
           /\ lastCall.prices[o] >= before.positions[s][1].tp
           /\ positions[s] = before.positions[s]
           /\ before.positions[o] # None
           /\ ClosedNow(o)

\* C3: when both callers attempt lock on the same symbol, idle when the
\* attempts were created, then in either order of execution exactly one
\* attempt returns True, the other False, and the stored position is the one
\* the successful attempt supplied.
C3_ExactlyOneLockWins ==
    \A s \in Symbols :
        (/\ \A c \in Callers : task[c].pc = "done" /\ task[c].symbol = s
         /\ roundStart[s] = "IDLE")
            => \E w \in Callers :
                   /\ task[w].ret = "True"
                   /\ \A c \in Callers \ {w} : task[c].ret = "False"
                   /\ LET a == task[w].args[1]
                      IN  positions[s] =
                              Some(VirtualPosition(s, a.direction, a.entry, a.tp,
                                                   a.sl, a.rr, a.score))

\* Both attempts, with different arguments, are done on a symbol that was
\* idle, and the attempt of c2 is the one that succeeded.
C3_Witness ==
    \E s \in Symbols :
        /\ \A c \in Callers : task[c].pc = "done" /\ task[c].symbol = s
        /\ roundStart[s] = "IDLE"
        /\ task["c1"].args # task["c2"].args
        /\ task["c2"].ret = "True"
        /\ positions[s][1].direction = task["c2"].args[1].direction

\* ------------------------------------------------------ pipeline contracts
\* The first place of `label` in the steps of the run of s, 0 when absent
Pos(s, label) ==
    IF \E i \in DOMAIN steps[s] : steps[s][i] = label
    THEN CHOOSE i \in DOMAIN steps[s] :
             /\ steps[s][i] = label
             /\ \A j \in 1..(i - 1) : steps[s][j] # label
    ELSE 0

Ran1(s, label) == Pos(s, label) > 0

\* label a was run, and before label b
RanBefore(s, a, b) == Pos(s, a) > 0 /\ Pos(s, a) < Pos(s, b)

\* C2: over any sequence of cycles a symbol never has overlapping signals:
\* the decision records dispatched for it outnumber its positions resolved
\* back to IDLE by at most one, so a resolve lies between any two dispatches;
\* and a signal is outstanding exactly while the registry holds its position.
C2_NoOverlappingSignals ==
    \A s \in Symbols :
        /\ openSignals[s] \in {0, 1}
        /\ (openSignals[s] = 1) <=> (positions[s] # None /\ states[s] # "IDLE")

\* A run that resolved the open position of its symbol and dispatched the
\* next decision record for it.
C2_Witness ==
    \E s \in Symbols :
        /\ pc[s] = "notify"
        /\ RanBefore(s, "closed", "dispatch")
        /\ openSignals[s] = 1

C5_ResolveBeforeLock ==
    \A s \in Symbols :
        \A i \in DOMAIN steps[s] :
            steps[s][i] \in {"lock_ok", "lock_fail", "lock_raise"} =>
                \E j \in 1..(i - 1) : steps[s][j] = "resolve"

\* A run whose resolve step closed a position and whose lock then succeeded.
C5_Witness ==
    \E s \in Symbols :
        /\ RanBefore(s, "resolve", "lock_ok")
        /\ Ran1(s, "closed")
        /\ positions[s] # None

\* ------------------------------------------------- registry contracts (II)
\* C11: in every reachable registry state the two maps track the same
\* symbols, and for every tracked symbol a position record exists if and only
\* if the symbol's state is not IDLE.
C11_PositionIffNotIdle ==
    /\ DOMAIN states = DOMAIN positions
    /\ Symbols \subseteq DOMAIN states
    /\ \A s \in DOMAIN states : (positions[s] # None) <=> (states[s] # "IDLE")

\* A manual unlock has just closed one symbol while another is still open.
C11_Witness ==
    \E s, t \in Symbols :
        /\ lastCall.op = "unlock_pair" /\ lastCall.symbol = s
        /\ before.states[s] # "IDLE" /\ states[s] = "IDLE" /\ positions[s] = None
        /\ states[t] # "IDLE" /\ positions[t] # None

\* A position appears only by a lock_pair on its symbol that returns True,
\* and holds the arguments of that call.
CreatedOnlyByLock(s) ==
    (before.positions[s] = None /\ positions[s] # None) =>
        /\ IsLockCall /\ lastCall.symbol = s /\ lastCall.ret = "True"
        /\ LET a == lastCall.args[1]
           IN  positions[s][1] =
                   VirtualPosition(s, a.direction, a.entry, a.tp, a.sl, a.rr, a.score)

\* A position that stays open keeps every field.
OpenUnaltered(s) ==
    (before.positions[s] # None /\ positions[s] # None) =>
        positions[s] = before.positions[s]

\* The call that just returned was a resolve that hit tp or sl on s.
ResolveHit(s) ==
    /\ IsUpdateCall
    /\ \E i \in DOMAIN events :
           /\ events[i].event = "UNLOCKED" /\ events[i].symbol = s
           /\ events[i].reason \in {"TP_HIT", "SL_HIT"}

\* C12 as stated: a position appears only through a lock that returns true,
\* disappears only through a resolve that hits take-profit or stop-loss, and
\* is never altered while open.
C12_AsStated ==
    \A s \in Symbols :
        /\ CreatedOnlyByLock(s)
        /\ OpenUnaltered(s)
        /\ (before.positions[s] # None /\ positions[s] = None) => ResolveHit(s)

\* C12, amended: a position appears only through a lock that returns true,
\* disappears only through a resolve that hits take-profit or stop-loss or
\* through an unlock_pair call on its symbol, and is never altered while open.
C12_PositionLifecycle ==
    \A s \in Symbols :
        /\ CreatedOnlyByLock(s)
        /\ OpenUnaltered(s)
        /\ (before.positions[s] # None /\ positions[s] = None) =>
               \/ ResolveHit(s)
               \/ lastCall.op = "unlock_pair" /\ lastCall.symbol = s

\* An unlock_pair call has just removed an open position that the price of
\* no resolve had reached.
C12_Witness ==
    \E s \in Symbols :
        /\ lastCall.op = "unlock_pair" /\ lastCall.symbol = s
        /\ before.positions[s] # None
        /\ positions[s] = None
        /\ events[1].reason = "manual"

\* The state changes a symbol may make in one registry call
Transitions ==
    {<<"IDLE", "LONG">>, <<"IDLE", "SHORT">>, <<"LONG", "IDLE">>, <<"SHORT", "IDLE">>}

\* C13: at construction every tracked symbol is IDLE with no position, and a
\* registry call changes the state of a symbol only from IDLE to LONG or
\* SHORT or from LONG or SHORT to IDLE, never between LONG and SHORT.
C13_OnlyLifecycleTransitions ==
    /\ lastCall.op = "__init__" =>
           \A s \in Symbols : states[s] = "IDLE" /\ positions[s] = None
    /\ \A s \in Symbols :
           \/ states[s] = before.states[s]
           \/ <<before.states[s], states[s]>> \in Transitions

\* A resolve has just taken a SHORT symbol back to IDLE while a LONG symbol
\* stayed open.
C13_Witness ==
    \E s, t \in Symbols :
        /\ IsUpdateCall
        /\ before.states[s] = "SHORT" /\ states[s] = "IDLE"
        /\ before.states[t] = "LONG" /\ states[t] = "LONG"

\* ------------------------------------------------ pipeline contracts (II)
\* C14: in a cycle in which the gate rejects the window of a symbol, the run
\* of that symbol invokes neither the scoring engine nor the risk calculator
\* nor lock_pair.
C14_RejectedWindowNeverScored ==
    \A s \in Symbols :
        Ran1(s, "gate_fail") =>
            /\ ~Ran1(s, "score")
            /\ ~Ran1(s, "risk_ok") /\ ~Ran1(s, "risk_reject")
            /\ ~Ran1(s, "lock_ok") /\ ~Ran1(s, "lock_fail") /\ ~Ran1(s, "lock_raise")
            /\ steps[s] = <<"ohlcv", "gate_fail">>
            /\ pc[s] = "done"

\* The gate rejected the window of a symbol whose position is open, in a
\* cycle in which another symbol was scored.
C14_Witness ==
    \E s, t \in Symbols :
        /\ Ran1(s, "gate_fail") /\ pc[s] = "done"
        /\ positions[s] # None
        /\ Ran1(t, "score")

\* C15 as stated: in every cycle, the run of every symbol that ingested a
\* window exports a telemetry record before it returns, whatever stopped it
\* (gate rejection, open position, threshold not met, risk rejection, failed
\* lock), and the record's score is 0 when the run did not score.
C15_AsStated ==
    \A s \in Symbols :
        /\ (pc[s] = "done" /\ Ran1(s, "ohlcv")) => Ran1(s, "export")
        /\ (pc[s] = "export" /\ ~Ran1(s, "score")) =>
               /\ frame[s].telemetry # None
               /\ frame[s].telemetry[1].score = 0

\* What one step leaves of another pipeline and its registry slot
Untouched(t) ==
    /\ pc'[t] = pc[t] /\ frame'[t] = frame[t] /\ steps'[t] = steps[t]
    /\ states'[t] = states[t] /\ positions'[t] = positions[t]
    /\ openSignals'[t] = openSignals[t]

\* The run of s raises in this step
FaultStep(s) == ~Ran1(s, "exception") /\ (Ran1(s, "exception"))'

\* gather can return once every pipeline has returned, and the next cycle
\* can start once the scanner sleeps
ScannerProceeds ==
    /\ (scanner = "gather" /\ \A s \in Symbols : pc[s] = "done") => ENABLED EndCycle
    /\ scanner = "gather" => \A s \in Symbols : pc[s] \in SuspensionPoints \cup {"done"}
    /\ scanner = "sleep" => ENABLED StartCycle

\* C16: a fault raised at any step of the pipeline of one symbol ends that
\* pipeline alone: the step leaves the pipeline, the frame, the trace and the
\* registry slot of every other symbol as they were and the scanner in its
\* cycle, and the cycle can then end and the next one start.
C16_FaultIsolated ==
    /\ []ScannerProceeds
    /\ [][\A s \in Symbols :
              FaultStep(s) =>
                  /\ pc'[s] = "done"
                  /\ scanner' = scanner
                  /\ \A t \in Symbols \ {s} : Untouched(t)]_vars

\* A cycle has ended in which one pipeline raised after its resolve closed a
\* position and the other dispatched and returned.
C16_Witness ==
    \E s, t \in Symbols :
        /\ scanner = "sleep"
        /\ Ran1(s, "closed") /\ Ran1(s, "exception")
        /\ Ran1(t, "dispatch") /\ pc[t] = "done" /\ ~Ran1(t, "exception")
        /\ ~Ran1(t, "cancelled")

\* The run of s is cancelled in this step
CancelStep(s) == ~Ran1(s, "cancelled") /\ (Ran1(s, "cancelled"))'

RegistryConsistent ==
    \A s \in Symbols : (positions[s] # None) <=> (states[s] # "IDLE")

\* C17: a cancellation delivered to the pipeline of one symbol at any of its
\* suspension points leaves the pipeline, the frame and the trace of every
\* other symbol as they were, changes no registry slot, and the registry is
\* consistent (a position exists iff the state is not IDLE) in every state.
C17_CancellationIsolated ==
    /\ []RegistryConsistent
    /\ [][\A s \in Symbols :
              CancelStep(s) =>
                  /\ pc'[s] = "done"
                  /\ states' = states /\ positions' = positions
                  /\ \A t \in Symbols \ {s} : Untouched(t)]_vars

\* A pipeline was cancelled while its decision record was in flight, its
\* position open, and the other pipeline went on to dispatch.
C17_Witness ==
    \E s, t \in Symbols :
        /\ Len(steps[s]) >= 2
        /\ steps[s][Len(steps[s])] = "cancelled"
        /\ steps[s][Len(steps[s]) - 1] = "dispatch"
        /\ positions[s] # None
        /\ pc[t] = "notify"

\* The last step the run of s has executed
LastStep(s) == steps[s][Len(steps[s])]

\* C18: no suspension point lies between the resolve step, the idle check,
\* scoring, risk validation and lock: a suspended pipeline that has resolved
\* has either left through an export or already locked and dispatched; and a
\* lock attempted by a pipeline never fails, whatever the interleaving of the
\* pipelines of a cycle.
C18_LockNeverRefused ==
    \A s \in Symbols :
        /\ ~Ran1(s, "lock_fail") /\ ~Ran1(s, "lock_raise")
        /\ (Ran1(s, "risk_ok") /\ ~Ran1(s, "exception")) => Ran1(s, "lock_ok")
        /\ (pc[s] \in SuspensionPoints /\ Ran1(s, "resolve")) =>
               /\ LastStep(s) \in {"dispatch", "export"}
               /\ Ran1(s, "idle") => (Ran1(s, "no_signal") \/ Ran1(s, "lock_ok"))
        /\ pc[s] = "fetch" => steps[s] = <<>>

\* One pipeline locked and is suspended in send_signal; the other, resumed
\* after it, resolved its open position and locked again.
C18_Witness ==
    \E s, t \in Symbols :
        /\ s # t
        /\ pc[s] = "notify" /\ Ran1(s, "lock_ok") /\ ~Ran1(s, "closed")
        /\ pc[t] = "notify" /\ RanBefore(t, "closed", "lock_ok")

\* --------------------------------------------------------- scoring contracts
\* A compute_score call has run on a window of at least MIN_SCORE_ROWS rows.
Scored == scored.ret # None /\ scored.votes # <<>>

Vote == {-1, 0, 1}

C19_ScoreIsSumOfFiveVotes ==
    (scored.ret # None /\ ~insufficient(scored.df[1])) =>
        LET c == scored.votes
        IN  /\ Len(c) = 5
            /\ \A i \in 1..5 : c[i] \in Vote
            /\ scored.ret[1] \in -5..5
            /\ scored.ret[1] = c[1] + c[2] + c[3] + c[4] + c[5]

\* With no order book at all, the five votes were all +1 and the score is 5.
C19_Witness ==
    /\ Scored
    /\ scored.orderbook[1] = None
    /\ scored.df[1][1].rows >= MIN_SCORE_ROWS
    /\ scored.ret = Some(5)
    /\ scored.votes = <<1, 1, 1, 1, 1>>

\* The snapshot is None, empty, or lacks one side.
BookAbsent(orderbook) ==
    book_side(orderbook, "bids") = <<>> \/ book_side(orderbook, "asks") = <<>>

Gated == gated.ret # None /\ ~too_short(gated.df[1])

\* The window with its last candle replaced.
ReplaceLast(df, candle) == [df EXCEPT ![Len(df)] = candle]

\* C22: the gate's result depends only on the candles up to and including
\* the second-to-last one: replacing the last candle of a window by any
\* other candle gives a window of the same length with the same gate result.
C22_GateIgnoresLastCandle ==
    (gated.ret # None /\ gated.df[1] # <<>>) =>
        \A candle \in LastCandles \cup HistoryCandles :
            gate_body(ReplaceLast(gated.df[1], candle)) = gated.ret[1]

\* The gate passed a window whose still-forming candle has no volume at all.
C22_Witness ==
    /\ Gated
    /\ gated.ret = Some(TRUE)
    /\ gated.df[1][Len(gated.df[1])].volume = 0

\* The candle the gate evaluates: the second-to-last one.
Evaluated == gated.df[1][Len(gated.df[1]) - 1]

\* volume > 0 and |close - open| / volume >= 0.0002
EfficiencyPasses(candle) ==
    /\ candle.volume > 0
    /\ abs(candle.close - candle.open) * 10000 >= MIN_VOLUME_EFFICIENCY * candle.volume

\* ATR and its rolling mean are both defined at the evaluated candle, and
\* ATR >= mean (sum of 14 true ranges / 14 >= sum of 24 such sums / (14 * 24)).
AtrPasses(df) ==
    LET i == Len(df) - 1
        atr == compute_atr(df, ATR_PERIOD, i)
        mean == atr_ma(df, i)
    IN  /\ atr # None /\ mean # None
        /\ atr[1] * ATR_MA_PERIOD >= mean[1]

\* takerBuy / volume < 0.49 or > 0.51
TakerPasses(candle) ==
    \/ candle.taker_buy_volume * 100 < WASH_TRADE_TAKER_RATIO_LOW * candle.volume
    \/ candle.taker_buy_volume * 100 > WASH_TRADE_TAKER_RATIO_HIGH * candle.volume

C24_ShortWindowsFailClosed ==
    /\ (gated.ret # None /\ Len(gated.df[1]) < min_required) => gated.ret = Some(FALSE)
    /\ (scored.ret # None /\ scored.df[1] # None /\ scored.df[1][1].rows < MIN_SCORE_ROWS)
          => scored.ret = Some(0)

\* A window one candle short of the gate's minimum, whose evaluated candle
\* passes all three filters, was refused, and a window of 29 rows whose five
\* conditions all agree scored 0.
C24_Witness ==
    /\ gated.ret = Some(FALSE)
    /\ Len(gated.df[1]) = min_required - 1
    /\ EfficiencyPasses(Evaluated) /\ AtrPasses(gated.df[1]) /\ TakerPasses(Evaluated)
    /\ scored.ret = Some(0)
    /\ scored.df[1][1].rows = MIN_SCORE_ROWS - 1
    /\ condition_votes(scored.df[1][1], None) = <<1, 1, 1, 1, 1>>

\* ------------------------------------------------------------ risk contracts
\* A calculate_risk_params call has run.
Risked == risked.ret # None

\* The call returned a RiskParams record.
Accepted == Risked /\ risked.ret[1].raised = "" /\ risked.ret[1].value # None

\* C25: calculate_risk_params never raises on a window that is too short:
\* for every window length and every direction value it returns a
\* RiskParams record or None.
C25_AsStated ==
    Risked => risked.ret[1].raised = ""

\* C26: every returned RiskParams record, in the rounded values it carries,
\* has SL < Entry < TP for LONG and TP < Entry < SL for SHORT.
C26_AsStated ==
    Accepted =>
        LET v == risked.ret[1].value[1]
        IN  /\ risked.direction[1] = "LONG" => (v.SL < v.Entry /\ v.Entry < v.TP)
            /\ risked.direction[1] = "SHORT" => (v.TP < v.Entry /\ v.Entry < v.SL)

\* The levels the call resolved, before rounding.
Resolved == risked.ret[1].levels[1]

\* C27: the calculator rejects every geometry whose reward:risk ratio
\* |tp - entry| / |entry - sl| is below MIN_RR_RATIO and accepts a geometry
\* whose ratio is exactly the minimum; no accepted record has a true ratio
\* below the minimum.
C27_AsStated ==
    (Risked /\ risked.ret[1].raised = "" /\ risked.ret[1].levels # None) =>
        LET risk == abs(Resolved.entry - Resolved.sl)
            reward == abs(Resolved.tp - Resolved.entry)
            sided == IF risked.direction[1] = "LONG"
                     THEN Resolved.sl < Resolved.entry /\ Resolved.entry < Resolved.tp
                     ELSE Resolved.tp < Resolved.entry /\ Resolved.entry < Resolved.sl
        IN  /\ Accepted => reward * 1000 >= MIN_RR_RATIO * risk
            /\ (sided /\ reward * 1000 = MIN_RR_RATIO * risk) => Accepted

\* The HVN levels of the window strictly below and strictly above its close.
HvnSet == {risked.df[1].hvn_levels[i] : i \in DOMAIN risked.df[1].hvn_levels}

HvnBelow == {l \in HvnSet : l < risked.df[1].close}

HvnAbove == {l \in HvnSet : l > risked.df[1].close}

Highest(levels) == CHOOSE l \in levels : \A m \in levels : m <= l

Lowest(levels) == CHOOSE l \in levels : \A m \in levels : l <= m

\* The anchor on the low side and on the high side of the close.
LowAnchor == IF HvnBelow # {} THEN Highest(HvnBelow) ELSE risked.df[1].swing_low

HighAnchor == IF HvnAbove # {} THEN Lowest(HvnAbove) ELSE risked.df[1].swing_high

\* The ATR buffer: 1.5 times the true-range mean at the last completed
\* candle, nothing while that mean is undefined.
AtrBuffer ==
    IF risked.df[1].tr_mean = None THEN 0
    ELSE (risked.df[1].tr_mean[1] * ATR_SL_MULTIPLIER) \div 10

\* C28: for LONG the stop is the nearest HVN strictly below the entry, else
\* the swing low, less the ATR buffer, and the target is the nearest HVN
\* strictly above the entry, else the swing high, unbuffered; for SHORT the
\* stop is the nearest HVN above (else the swing high) plus the buffer and
\* the target the nearest HVN below (else the swing low); the entry is the
\* last close.  A returned record carries these values rounded to 8 decimals.
C28_LevelsFromAnchors ==
    (Risked /\ risked.ret[1].raised = "" /\ risked.ret[1].levels # None) =>
        /\ Resolved.entry = risked.df[1].close
        /\ risked.direction[1] = "LONG" =>
              /\ Resolved.sl = LowAnchor - AtrBuffer
              /\ Resolved.tp = HighAnchor
        /\ risked.direction[1] = "SHORT" =>
              /\ Resolved.sl = HighAnchor + AtrBuffer
              /\ Resolved.tp = LowAnchor
        /\ Accepted =>
              /\ risked.ret[1].value[1].Entry = round8(Resolved.entry)
              /\ risked.ret[1].value[1].SL = round8(Resolved.sl)
              /\ risked.ret[1].value[1].TP = round8(Resolved.tp)

\* A LONG call on a window with two HVNs below and two above its close and a
\* positive ATR: the stop is the higher of the two below less the buffer and
\* the target the lower of the two above.
C28_Witness ==
    /\ Risked /\ risked.ret[1].raised = "" /\ risked.ret[1].levels # None
    /\ risked.direction[1] = "LONG"
    /\ Cardinality(HvnBelow) = 2 /\ Cardinality(HvnAbove) = 2
    /\ Resolved.sl_buffer > 0
    /\ Resolved.sl = Highest(HvnBelow) - Resolved.sl_buffer
    /\ Resolved.tp = Lowest(HvnAbove)

\* -------------------------------------------------------- pipeline contracts (II)
\* The score meets the threshold of the direction.
MeetsThreshold(score, direction) ==
    \/ direction = "LONG" /\ score >= SCORE_LONG_THRESHOLD
    \/ direction = "SHORT" /\ score <= SCORE_SHORT_THRESHOLD

\* The steps that follow a proposed direction.
AfterThreshold == {"risk_ok", "risk_reject", "risk_raise", "lock_ok", "lock_fail",
                   "lock_raise", "dispatch"}

\* C29: the pipeline proposes LONG exactly when score >= SCORE_LONG_THRESHOLD
\* and SHORT exactly when score <= SCORE_SHORT_THRESHOLD: a run whose score
\* lies strictly between the thresholds ends at the no-signal export and
\* never reaches the risk calculator or lock, a run that reaches them has
\* met a threshold, and every stored position is LONG with score >= +4 or
\* SHORT with score <= -4.
C29_DirectionFromThreshold ==
    \A s \in Symbols :
        /\ positions[s] # None =>
               MeetsThreshold(positions[s][1].score, positions[s][1].direction)
        /\ Ran1(s, "no_signal") =>
               /\ ~Ran1(s, "threshold")
               /\ \A i \in DOMAIN steps[s] : steps[s][i] \notin AfterThreshold
        /\ (Ran1(s, "no_signal") /\ pc[s] = "export") =>
               /\ frame[s].score[1] < SCORE_LONG_THRESHOLD
               /\ frame[s].score[1] > SCORE_SHORT_THRESHOLD
        /\ \A i \in DOMAIN steps[s] :
               steps[s][i] \in AfterThreshold =>
                   \E j \in 1..(i - 1) : steps[s][j] = "threshold"
        /\ pc[s] = "notify" =>
               /\ MeetsThreshold(frame[s].score[1], frame[s].direction[1])
               /\ positions[s] # None
               /\ positions[s][1].direction = frame[s].direction[1]
               /\ positions[s][1].score = frame[s].score[1]

\* A run scored exactly the SHORT threshold, locked a SHORT position with
\* that score and stands at the dispatch.
C29_Witness ==
    \E s \in Symbols :
        /\ pc[s] = "notify"
        /\ Ran1(s, "lock_ok")
        /\ frame[s].score = Some(SCORE_SHORT_THRESHOLD)
        /\ positions[s] # None
        /\ positions[s][1].direction = "SHORT"
        /\ positions[s][1].score = SCORE_SHORT_THRESHOLD

\* The reasons for which a run that ingested its data may stop before lock:
\* the gate rejected the window, a position is still open after resolve, no
\* threshold was met, or the risk calculator rejected.
StopReasons == {"gate_fail", "not_idle", "no_signal", "risk_reject"}

\* C30: in every cycle in which an instrument's data is ingested, its window
\* passes the gate, the instrument is idle after resolve, the score meets a
\* threshold and the risk calculator accepts, the run reaches lock, the
\* instrument becomes LONG or SHORT and a decision record is dispatched in
\* that cycle: a run with data stops short of lock only for one of those
\* reasons, never by aborting at an earlier step.
C30_AsStated ==
    \A s \in Symbols :
        Ran1(s, "ohlcv") =>
            \/ \E reason \in StopReasons : Ran1(s, reason)
            \/ /\ RanBefore(s, "lock_ok", "dispatch")
               /\ pc[s] = "notify" => states[s] \in {"LONG", "SHORT"}

\* ------------------------------------------------------- ingestion contracts
\* The frame in hand was built by _fallback_fetch_ohlcv.
ViaFallback ==
    /\ ingested.answers # <<>>
    /\ ingested.answers[Len(ingested.answers)] = Answer("fetch_ohlcv", "ohlcv")

\* C31: a window built by the fallback fetch path (taker volumes estimated at
\* half the volume) is always rejected by the anti-wash gate under the
\* default band, so step 3 of the pipeline returns on it whatever the gate's
\* arity: fallback data never reaches scoring, a lock or a dispatch.
C31_FallbackAlwaysRejected ==
    (ViaFallback /\ gated.df = ingested.ret[1] /\ gated.ret # None) =>
        /\ gated.ret = Some(FALSE)
        /\ \A params \in GateArities :
               gate_rejects(gate_anti_wash_trading(params, gated.ret[1]))

\* A fallback frame is rejected although the same candles, served by the
\* raw endpoint with their true taker volumes, pass every filter.
C31_Witness ==
    /\ ViaFallback
    /\ gated.df = ingested.ret[1]
    /\ gated.ret = Some(FALSE)
    /\ gate_body(_parse_binance_klines(kline_response(ingested.raw[1], "klines"))[1])

\* ------------------------------------------------ registry contracts (III)
\* The last call was a lock for a symbol the registry did not track.
LockUntracked ==
    /\ lastCall.op = "lock_pair"
    /\ lastCall.symbol \notin DOMAIN before.states

\* C32: lock for a symbol that the registry does not track fails as a no-op:
\* it returns false without raising and without adding or changing any state
\* or position entry.
C32_AsStated ==
    LockUntracked => lastCall.ret = "False" /\ reg_now = before

\* ----------------------------------------------- pipeline contracts (III)
\* How often the run of s has executed the step `label`.
Times(s, label) == Cardinality({i \in DOMAIN steps[s] : steps[s][i] = label})

\* C33: update_virtual_positions is applied once per cycle for each
\* instrument whose candles were fetched, before any new scoring, so that a
\* position whose latest close breaches a level is closed in that cycle:
\* every run that fetched candles has run the resolve step exactly once, and
\* ahead of its scoring step if it has one.
C33_AsStated ==
    \A s \in Symbols :
        Ran1(s, "ohlcv") =>
            /\ Times(s, "resolve") = 1
            /\ Ran1(s, "score") => RanBefore(s, "resolve", "score")

\* ------------------------------------------------ ingestion contracts (II)
\* The exchange calls of the running fetch that ask for data.
Attempts == SelectSeq(ingested.answers, LAMBDA a : a.call # "market")

Klines == calls_of(ingested.answers, "fapiPublicGetKlines")

Generic == calls_of(ingested.answers, "fetch_ohlcv")

Books == calls_of(ingested.answers, "fetch_order_book")

\* The function has returned None.
ReturnedNone == ingested.ret = Some(None) /\ ingested.raised = ""

\* The function has neither returned nor raised.
StillRunning == ingested.ret = None /\ ingested.raised = ""

\* Answers after which the function returns None at once.
Fatal(a) ==
    \/ a.call = "fapiPublicGetKlines" /\ a.answer \in {"BadSymbol", "Exception"}
    \/ a.call = "fetch_order_book" /\ a.answer \in {"ExchangeError", "Exception"}

\* Loop iterations that end neither in a return nor in the fallback.
Failed(a) ==
    /\ a.call \in {"fapiPublicGetKlines", "fetch_order_book"}
    /\ a.answer \in {"NetworkError", "RequestTimeout", "empty", "short_columns"}

Resolvable(s) ==
    \E price \in Ticks :
        update_virtual_positions(reg_now, [x \in {s} |-> price]).reg.states[s] = "IDLE"

\* C35: in every reachable registry state the state tag agrees with the
\* stored position's direction, for every direction value that lock accepts:
\* a symbol in state LONG holds a position of direction "LONG", one in state
\* SHORT a position of direction "SHORT"; hence every open position is
\* resolvable by some price.
C35_AsStated ==
    \A s \in Symbols :
        /\ states[s] \in {"LONG", "SHORT"} =>
               positions[s] # None /\ positions[s][1].direction = states[s]
        /\ positions[s] # None => Resolvable(s)

\* The last call was a registry operation performed for the one symbol s: a
\* lock of s, or a resolve whose price mapping contains s alone.
CallFor(s) ==
    \/ lastCall.op = "lock_pair" /\ lastCall.symbol = s
    \/ lastCall.op = "update_virtual_positions" /\ DOMAIN lastCall.prices = {s}

\* C36: a registry operation performed for one symbol (lock, or resolve with
\* a price mapping of that symbol alone) never changes, adds or removes the
\* state or position entry of any other symbol, so pipelines of distinct
\* instruments cannot affect each other's lifecycle state.
C36_OtherSymbolsUntouched ==
    \A s \in AnySymbols :
        CallFor(s) =>
            /\ DOMAIN states \ {s} = DOMAIN before.states \ {s}
            /\ DOMAIN positions \ {s} = DOMAIN before.positions \ {s}
            /\ \A t \in DOMAIN states \ {s} :
                   states[t] = before.states[t] /\ positions[t] = before.positions[t]

\* A resolve for s alone closed the position of s at a price that would
\* have closed the open position of another symbol too, and that one stays.
C36_Witness ==
    \E s \in AnySymbols, t \in Symbols :
        /\ s # t
        /\ lastCall.op = "update_virtual_positions"
        /\ DOMAIN lastCall.prices = {s}
        /\ s \in DOMAIN before.states
        /\ before.states[s] # "IDLE" /\ states[s] = "IDLE"
        /\ states[t] # "IDLE"
        /\ update_virtual_positions(
               before, [x \in {t} |-> lastCall.prices[s]]).reg.states[t] = "IDLE"

\* ------------------------------------------------ pipeline contracts (IV)
\* The run of s so far: each lock that succeeded is followed at once by one
\* dispatch, and while that dispatch is in flight it carries the fields of
\* the position the registry stores for s.
DispatchMatchesLock(s) ==
    /\ Times(s, "lock_ok") <= 1
    /\ Times(s, "dispatch") = Times(s, "lock_ok")
    /\ Ran1(s, "lock_ok") => Pos(s, "dispatch") = Pos(s, "lock_ok") + 1
    /\ pc[s] = "notify" =>
           /\ steps[s][Len(steps[s])] = "dispatch"
           /\ positions[s] # None
           /\ frame[s].signal = positions[s]
           /\ states[s] = positions[s][1].direction

\* C37: every successful lock of the pipeline is followed in the same run by
\* exactly one dispatch attempt carrying the symbol, direction, entry, TP,
\* SL, RR and score of the stored position, and the step that ends that
\* dispatch (it returns, raises or is cancelled) leaves the registry as it
\* is, so a failed delivery leaves the instrument locked.
C37_OneDispatchPerLock ==
    [][\A s \in Symbols :
           /\ DispatchMatchesLock(s)'
           /\ (pc[s] = "notify" /\ pc'[s] # "notify") =>
                  /\ UNCHANGED <<states, positions>>
                  /\ states'[s] \in {"LONG", "SHORT"}]_vars

\* A dispatch that raised or was cancelled, and the instrument still locked.
C37_Witness ==
    \E s \in Symbols :
        /\ pc[s] = "done"
        /\ RanBefore(s, "lock_ok", "dispatch")
        /\ steps[s][Len(steps[s])] \in {"exception", "cancelled"}
        /\ Pos(s, "dispatch") = Len(steps[s]) - 1
        /\ states[s] \in {"LONG", "SHORT"}
        /\ positions[s] # None

\* The record that the export of s is writing.
Exporting(s) == frame[s].telemetry[1]

\* C38: the tradeState tag of every exported telemetry record equals the
\* registry state of its symbol while the record is being exported: IDLE
\* below threshold, the open state when a position is open, the direction
\* just locked after a signal, also across the suspension at the dispatch.
C38_TagIsRegistryState ==
    \A s \in Symbols :
        pc[s] = "export" =>
            /\ frame[s].telemetry # None
            /\ Exporting(s).symbol = s
            /\ upper(Exporting(s).trade_state) = get_state(reg_now, s)
            /\ Ran1(s, "no_signal") => upper(Exporting(s).trade_state) = "IDLE"
            /\ Ran1(s, "not_idle") =>
                   upper(Exporting(s).trade_state) = positions[s][1].direction
            /\ Ran1(s, "dispatch") =>
                   upper(Exporting(s).trade_state) = positions[s][1].direction

\* An export after the dispatch suspension, during which the other symbol's
\* pipeline has locked a position, and an export of an open position.
C38_Witness ==
    \E s \in Symbols, t \in Symbols :
        /\ s # t
        /\ pc[s] = "export" /\ RanBefore(s, "dispatch", "export")
        /\ Exporting(s).trade_state \in {"LONG", "SHORT"}
        /\ pc[t] = "export" /\ Ran1(t, "not_idle")
        /\ Exporting(t).trade_state \in {"LONG", "SHORT"}

\* C39: evaluation cycles never overlap: the pipelines of a cycle start
\* only when the scanner leaves its sleep, all together and only after every
\* pipeline of the cycle before has returned, raised or been cancelled, and
\* the scanner sleeps only when no pipeline is in flight.
C39_CyclesNeverOverlap ==
    [][/\ scanner' = "sleep" => \A s \in Symbols : pc'[s] = "done"
       /\ \A s \in Symbols :
              (pc[s] = "done" /\ pc'[s] # "done") =>
                  /\ scanner = "sleep" /\ scanner' = "gather"
                  /\ \A t \in Symbols : pc[t] = "done" /\ pc'[t] = "fetch"]_vars

\* A later cycle is running: s waits for its fetch while the registry holds
\* the position a cycle before locked for it, and the other pipeline of this
\* cycle has already been cancelled.
C39_Witness ==
    \E s \in Symbols, t \in Symbols :
        /\ scanner = "gather"
        /\ pc[s] = "fetch" /\ steps[s] = <<>> /\ positions[s] # None
        /\ pc[t] = "done" /\ steps[t] = <<"cancelled">>

====
